---- MODULE Spec2Model ----
(***************************************************************************)
(* Seed selection and classification engine of the genre manifest          *)
(* generator: rule evaluators, seed selection under uniqueness, and        *)
(* feature medians, as implemented by the script variants killmegod.py,    *)
(* v2.py, test.py and extract_genre_seeds_patched_help.py.                 *)
(*                                                                         *)
(* Text is modelled as sequences of one-character strings so that          *)
(* lowercasing, trimming, substring and word-boundary matching are         *)
(* computed, not assumed.  Optional numbers use the sentinel NONE, a value *)
(* that does not parse as a number uses BADVAL.                            *)
(***************************************************************************)
EXTENDS Integers, Sequences, FiniteSets, TLC

VARIABLES
    evaluator,      \* which script's passes_rules is being exercised
    genre,          \* target genre of the evaluation
    track,          \* the track record under evaluation
    GENRE_RULES,    \* the rule table: genre key -> rule record
    done,           \* the evaluator has returned
    verdict,        \* its return value
    script,         \* which script variant runs the feature or selection step
    seed_tracks,    \* the seed list handed to compute_features_from_tracks
    feat,           \* the emitted feature summary: field -> value in hundredths
    med_year,       \* the emitted median release year
    featDone,       \* compute_features_from_tracks has returned
    tracks,         \* the loaded dataset, in file order
    noise,          \* how the random tie-break term of the scores falls
    pos,            \* index of the next genre of the selection loop
    results,        \* genre key or display name -> selected seed list
    global_seen_ids,     \* track ids selected so far in the run
    global_seen_artists, \* primary artists selected so far in the run
    GENRE_TREE,     \* the taxonomy the manifest is built over
    manifest,       \* the built manifest: top-level genre name -> built node
    manDone,        \* the manifest build has returned
    call,           \* a helper function under test and its arguments
    ret,            \* what the helper returned: << >> before the call, <<value>> after
    pc,             \* the stage a whole run of a script is about to execute
    completed,      \* the stages of the run that finished without error, in order
    manifest_file,  \* the manifest output file on disk
    exit_status     \* exit status of the run, NONE while it is running

ruleVars == <<evaluator, genre, track, GENRE_RULES, done, verdict>>
featVars == <<seed_tracks, feat, med_year, featDone>>
selVars == <<tracks, noise, pos, results, global_seen_ids, global_seen_artists>>
manVars == <<GENRE_TREE, manifest, manDone>>
funVars == <<call, ret>>
runVars == <<pc, completed, manifest_file, exit_status>>
auxVars == <<manVars, funVars, runVars>>
vars == <<ruleVars, script, featVars, selVars, auxVars>>

\* ------------------------------------------------------------------------
\* Sentinels
\* ------------------------------------------------------------------------
NONE == -1
BADVAL == -2
\* an explicit JSON null, where the code tells it from an absent key
NULLVAL == -3

\* ------------------------------------------------------------------------
\* String literals (sequences of characters)
\* ------------------------------------------------------------------------
S ==
    [ nu_metal |-> <<"n", "u", " ", "m", "e", "t", "a", "l">>,
      dance_pop |-> <<"d", "a", "n", "c", "e", " ", "p", "o", "p">>,
      alternative_rock |-> <<"a", "l", "t", "e", "r", "n", "a", "t", "i", "v", "e", " ", "r", "o", "c", "k">>,
      shoegaze |-> <<"s", "h", "o", "e", "g", "a", "z", "e">>,
      dream_pop |-> <<"d", "r", "e", "a", "m", " ", "p", "o", "p">>,
      Slowdive |-> <<"S", "l", "o", "w", "d", "i", "v", "e">>,
      slowdive |-> <<"s", "l", "o", "w", "d", "i", "v", "e">>,
      Ride |-> <<"R", "i", "d", "e">>,
      Riders |-> <<"R", "i", "d", "e", "r", "s">>,
      Korn |-> <<"K", "o", "r", "n">>,
      kor |-> <<"k", "o", "r">>,
      live |-> <<"l", "i", "v", "e">>,
      Alison |-> <<"A", "l", "i", "s", "o", "n">>,
      Alison_Live |-> <<"A", "l", "i", "s", "o", "n", " ", "L", "i", "v", "e">>,
      punk |-> <<"p", "u", "n", "k">>,
      pop_punk |-> <<"p", "o", "p", " ", "p", "u", "n", "k">>,
      dance |-> <<"d", "a", "n", "c", "e">>,
      edm |-> <<"e", "d", "m">>,
      electro |-> <<"e", "l", "e", "c", "t", "r", "o">>,
      big_room |-> <<"b", "i", "g", " ", "r", "o", "o", "m">>,
      east_coast_hip_hop |-> <<"e", "a", "s", "t", " ", "c", "o", "a", "s", "t", " ", "h", "i", "p", " ", "h", "o", "p">>,
      afrobeat |-> <<"a", "f", "r", "o", "b", "e", "a", "t">>,
      bossa_nova |-> <<"b", "o", "s", "s", "a", " ", "n", "o", "v", "a">>,
      grunge |-> <<"g", "r", "u", "n", "g", "e">>,
      rock |-> <<"r", "o", "c", "k">>,
      pop |-> <<"p", "o", "p">>,
      pop_rock |-> <<"p", "o", "p", " ", "r", "o", "c", "k">>,
      soft_rock |-> <<"s", "o", "f", "t", " ", "r", "o", "c", "k">>,
      indie_rock |-> <<"i", "n", "d", "i", "e", " ", "r", "o", "c", "k">>,
      Modern |-> <<"M", "o", "d", "e", "r", "n">>,
      Bush |-> <<"B", "u", "s", "h">>,
      Weezer |-> <<"W", "e", "e", "z", "e", "r">>,
      Leave |-> <<"L", "e", "a", "v", "e">>,
      Unknown |-> <<"U", "n", "k", "n", "o", "w", "n">>,
      feat |-> <<"f", "e", "a", "t">>,
      ft |-> <<"f", "t">>,
      featuring |-> <<"f", "e", "a", "t", "u", "r", "i", "n", "g">>,
      with |-> <<"w", "i", "t", "h">>,
      unknown |-> <<"u", "n", "k", "n", "o", "w", "n">>,
      dot_json |-> <<".", "j", "s", "o", "n">>,
      Crazy_In_Love |-> <<"C", "r", "a", "z", "y", " ", "I", "n", " ", "L", "o", "v", "e">>,
      crazy_in_love |-> <<"c", "r", "a", "z", "y", "-", "i", "n", "-", "l", "o", "v", "e">>,
      Beyonce |-> <<"B", "e", "y", "o", "n", "c", "é", " ">>,
      beyonc |-> <<"b", "e", "y", "o", "n", "c">>,
      __synthetic__ |-> <<"_", "_", "s", "y", "n", "t", "h", "e", "t", "i", "c", "_", "_">>,
      post_punk |-> <<"p", "o", "s", "t", "-", "p", "u", "n", "k">>,
      Punk_Rock |-> <<"P", "u", "n", "k", " ", "R", "o", "c", "k">>,
      spunk |-> <<"s", "p", "u", "n", "k">>,
      EDM_punk |-> <<"E", "D", "M", " ", "p", "u", "n", "k">>,
      Pop_Rock_tag |-> <<" ", "P", "o", "p", " ", "R", "o", "c", "k", " ">>,
      rock_padded |-> <<" ", "R", "o", "c", "k", " ">>,
      credit_feat |-> <<" ", "(", "f", "e", "a", "t", ".", " ", "J", "a", "y", "-", "Z", ")">>,
      credit_ft |-> <<" ", "f", "t", ".", " ", "B">>,
      credit_featuring |-> <<" ", "F", "E", "A", "T", "U", "R", "I", "N", "G", " ", "B", "o">>,
      credit_with |-> <<" ", "(", "w", "i", "t", "h", " ", "F", "r", "i", "e", "n", "d", "s", ")">>,
      Jay_Z |-> <<"J", "a", "y", "-", "Z">>,
      Track_9 |-> <<"T", "r", "a", "c", "k", " ", " ", "9", "!">>,
      Junk |-> <<"J", "u", "n", "k">>,
      rock_dash |-> <<"r", "o", "c", "k", "-">>,
      Post_Punk |-> <<"P", "o", "s", "t", "-", "P", "u", "n", "k">>,
      hip_hop_slash |-> <<"H", "i", "p", "_", "H", "o", "p", " ", "/", " ", "R", "a", "p">>,
      two_blanks |-> <<"d", "r", "e", "a", "m", " ", " ", "p", "o", "p">>,
      Daft_Punk |-> <<"D", "a", "f", "t", " ", "P", "u", "n", "k">>,
      Drift_Away |-> <<"D", "r", "i", "f", "t", " ", "A", "w", "a", "y">> ]

\* ------------------------------------------------------------------------
\* Text primitives (Python str and re semantics on the model alphabet)
\* ------------------------------------------------------------------------
\* the capital letters and their lowercase forms
LOWERCASE ==
    "A" :> "a" @@ "B" :> "b" @@ "C" :> "c" @@ "D" :> "d" @@ "E" :> "e" @@ "F" :> "f"
    @@ "G" :> "g" @@ "H" :> "h" @@ "I" :> "i" @@ "J" :> "j" @@ "K" :> "k" @@ "L" :> "l"
    @@ "M" :> "m" @@ "N" :> "n" @@ "O" :> "o" @@ "P" :> "p" @@ "Q" :> "q" @@ "R" :> "r"
    @@ "S" :> "s" @@ "T" :> "t" @@ "U" :> "u" @@ "V" :> "v" @@ "W" :> "w" @@ "X" :> "x"
    @@ "Y" :> "y" @@ "Z" :> "z"

\* str.lower() on one character
LowerChar(c) == IF c \in DOMAIN LOWERCASE THEN LOWERCASE[c] ELSE c

Lower(s) == [i \in 1..Len(s) |-> LowerChar(s[i])]

\* \s of the regular expressions, and the characters str.strip() removes
IsSpace(c) == c \in {" ", "\t"}

\* \w of the regular expressions: letters and digits; punctuation and blanks are not
IsWordChar(c) == c \notin {" ", "\t", "-", "&", "(", ")", ".", "/", "!"}

RECURSIVE LStrip(_)
LStrip(s) ==
    IF s # << >> /\ IsSpace(Head(s)) THEN LStrip(Tail(s)) ELSE s

RECURSIVE RStrip(_)
RStrip(s) ==
    IF s # << >> /\ IsSpace(s[Len(s)]) THEN RStrip(SubSeq(s, 1, Len(s) - 1)) ELSE s

\* str.strip()
Strip(s) == RStrip(LStrip(s))

\* Python's `needle in hay`
Contains(hay, needle) ==
    \E i \in 1..(Len(hay) - Len(needle) + 1) :
        SubSeq(hay, i, i + Len(needle) - 1) = needle

\* \b at offset p of s (between s[p] and s[p+1])
WordBoundaryAt(s, p) ==
    LET leftW == p >= 1 /\ IsWordChar(s[p])
        rightW == p < Len(s) /\ IsWordChar(s[p + 1])
    IN leftW # rightW

\* re.compile(rf"\b{re.escape(pat)}\b").search(text)
BoundarySearch(pat, text) ==
    \E i \in 1..(Len(text) - Len(pat) + 1) :
        /\ SubSeq(text, i, i + Len(pat) - 1) = pat
        /\ WordBoundaryAt(text, i - 1)
        /\ WordBoundaryAt(text, i + Len(pat) - 1)

\* _WS.sub(" ", s): every run of whitespace becomes one blank
RECURSIVE CollapseWS(_)
CollapseWS(s) ==
    IF s = << >> THEN << >>
    ELSE IF IsSpace(Head(s))
         THEN <<" ">> \o CollapseWS(LStrip(s))
         ELSE <<Head(s)>> \o CollapseWS(Tail(s))

\* test.py norm_text
norm_text(s) == IF s = << >> THEN << >> ELSE Lower(Strip(CollapseWS(s)))

\* test.py norm_tags: the set of normalized non-empty tags
test_norm_tags(tags) == {norm_text(tags[i]) : i \in {j \in DOMAIN tags : tags[j] # << >>}}

\* (track.get("artists") or [""])[0]
PrimaryArtist(t) == IF t.artists = << >> THEN << >> ELSE t.artists[1]

\* ------------------------------------------------------------------------
\* Rule records
\* ------------------------------------------------------------------------
\* A genre without a rule record (GENRE_RULES.get(...) is None or empty)
EmptyRules ==
    [ require_artist_genres_any |-> << >>,
      require_artist_genres_all |-> << >>,
      deny_artist_genres_any |-> << >>,
      deny_name_contains |-> << >>,
      deny_artist_contains |-> << >>,
      whitelist_artists |-> << >>,
      whitelist_only |-> FALSE,
      min_year |-> NONE,
      max_year |-> NONE,
      popularity_min |-> NONE,
      popularity_max |-> NONE ]

\* GENRE_RULES.get(key) with a missing key read as the empty record
RulesGet(table, key) == IF key \in DOMAIN table THEN table[key] ELSE EmptyRules

\* EXCLUSIONS.get(g, []) of test.py and killmegod.py, for the genres of the model
EXCLUSIONS(g) ==
    IF g = S.punk THEN <<S.pop_punk, S.dance, S.edm, S.electro, S.big_room>>
    ELSE IF g = S.rock THEN <<S.pop_rock, S.soft_rock>>
    ELSE << >>

\* Python truthiness of an optional number: None and 0 are falsy
Truthy(x) == x # NONE /\ x # 0

\* ------------------------------------------------------------------------
\* Rule evaluator of killmegod.py
\* ------------------------------------------------------------------------
\* [g.lower() for g in track.get("artist_genres") or []]
LowerTags(t) == [i \in DOMAIN t.artist_genres |-> Lower(t.artist_genres[i])]

\* Hard denies: some deny entry is found on word boundaries in some tag
DenyTagHit(rules, t) ==
    \E i \in DOMAIN rules.deny_artist_genres_any :
        \E j \in DOMAIN t.artist_genres :
            BoundarySearch(Lower(rules.deny_artist_genres_any[i]), LowerTags(t)[j])

\* Require at least one: some required entry is found on word boundaries in some tag
RequireFound(rules, t) ==
    \E i \in DOMAIN rules.require_artist_genres_any :
        \E j \in DOMAIN t.artist_genres :
            BoundarySearch(Lower(rules.require_artist_genres_any[i]), LowerTags(t)[j])

\* Name denies: a denied token occurs in the lowercased title
NameDenyHit(rules, t) ==
    \E i \in DOMAIN rules.deny_name_contains :
        Contains(Lower(t.name), Lower(rules.deny_name_contains[i]))

\* Artist name denies: a denied token occurs in the lowercased primary artist
ArtistDenyHit(rules, t) ==
    \E i \in DOMAIN rules.deny_artist_contains :
        Contains(Lower(PrimaryArtist(t)), Lower(rules.deny_artist_contains[i]))

\* Whitelist bypass test: any(w.lower() in artist for w in whitelist)
WhitelistHit(rules, t) ==
    \E i \in DOMAIN rules.whitelist_artists :
        Contains(Lower(PrimaryArtist(t)), Lower(rules.whitelist_artists[i]))

\* y = int(y) if y else None, with any exception giving None
YearParsed(raw) == IF raw = NONE \/ raw = BADVAL \/ raw = 0 THEN NONE ELSE raw

\* Year gates: applied only to a known year and to truthy bounds
YearGate(rules, t) ==
    LET y == YearParsed(t.release_year)
    IN y # NONE =>
          /\ ~(Truthy(rules.min_year) /\ y < rules.min_year)
          /\ ~(Truthy(rules.max_year) /\ y > rules.max_year)

\* float(track.get("popularity", 0) or 0)
PopOrZero(raw) == IF raw \in {NONE, NULLVAL} THEN 0 ELSE raw

\* Popularity gates: applied only to truthy bounds
PopGate(rules, t) ==
    LET pop == PopOrZero(t.popularity)
    IN /\ ~(Truthy(rules.popularity_min) /\ pop < rules.popularity_min)
       /\ ~(Truthy(rules.popularity_max) /\ pop > rules.popularity_max)

\* Mutant: the whitelist bypass is tested first, ahead of the deny checks
passes_rules_whitelist_first(target_genre, t, table) ==
    LET rules == RulesGet(table, Lower(target_genre))
    IN IF rules = EmptyRules THEN TRUE
       ELSE IF WhitelistHit(rules, t) THEN TRUE
       ELSE IF DenyTagHit(rules, t) THEN FALSE
       ELSE IF rules.require_artist_genres_any # << >> /\ ~RequireFound(rules, t) THEN FALSE
       ELSE IF NameDenyHit(rules, t) THEN FALSE
       ELSE IF ArtistDenyHit(rules, t) THEN FALSE
       ELSE YearGate(rules, t) /\ PopGate(rules, t)

\* Mutant: the whitelist bypass is tested ahead of the name and artist denies
passes_rules_whitelist_before_name(target_genre, t, table) ==
    LET rules == RulesGet(table, Lower(target_genre))
    IN IF rules = EmptyRules THEN TRUE
       ELSE IF DenyTagHit(rules, t) THEN FALSE
       ELSE IF rules.require_artist_genres_any # << >> /\ ~RequireFound(rules, t) THEN FALSE
       ELSE IF WhitelistHit(rules, t) THEN TRUE
       ELSE IF NameDenyHit(rules, t) THEN FALSE
       ELSE IF ArtistDenyHit(rules, t) THEN FALSE
       ELSE YearGate(rules, t) /\ PopGate(rules, t)

\* passes_rules(target_genre, track) of killmegod.py, reading the table given
passes_rules(target_genre, t, table) ==
    LET rules == RulesGet(table, Lower(target_genre))
    IN IF rules = EmptyRules THEN TRUE
       ELSE IF DenyTagHit(rules, t) THEN FALSE
       ELSE IF rules.require_artist_genres_any # << >> /\ ~RequireFound(rules, t) THEN FALSE
       ELSE IF NameDenyHit(rules, t) THEN FALSE
       ELSE IF ArtistDenyHit(rules, t) THEN FALSE
       ELSE IF WhitelistHit(rules, t) THEN TRUE
       ELSE YearGate(rules, t) /\ PopGate(rules, t)

\* passes_rules reaches float(track.get("popularity", 0) or 0) with a
\* popularity that is not a number: float() raises ValueError
passes_rules_raises(target_genre, t, table) ==
    LET rules == RulesGet(table, Lower(target_genre))
    IN /\ rules # EmptyRules
       /\ ~DenyTagHit(rules, t)
       /\ ~(rules.require_artist_genres_any # << >> /\ ~RequireFound(rules, t))
       /\ ~NameDenyHit(rules, t)
       /\ ~ArtistDenyHit(rules, t)
       /\ ~WhitelistHit(rules, t)
       /\ YearGate(rules, t)
       /\ t.popularity = BADVAL

\* ------------------------------------------------------------------------
\* Rule evaluator of v2.py
\* ------------------------------------------------------------------------
\* genres for which v2.py demands two overlapping (required entry, tag) pairs
TrickyBuckets == {S.east_coast_hip_hop, S.afrobeat, S.bossa_nova, S.grunge, S.shoegaze}

\* hard denies first: some deny entry is a substring of some tag
v2_DenyTagHit(rules, t) ==
    \E i \in DOMAIN rules.deny_artist_genres_any :
        \E j \in DOMAIN t.artist_genres :
            Contains(LowerTags(t)[j], Lower(rules.deny_artist_genres_any[i]))

\* overlap = sum(1 for r in req for g in a_gen if r in g)
v2_Overlap(rules, t) ==
    Cardinality({p \in (DOMAIN rules.require_artist_genres_any) \X (DOMAIN t.artist_genres) :
        Contains(LowerTags(t)[p[2]], Lower(rules.require_artist_genres_any[p[1]]))})

\* y = int(y) if isinstance(y, (int, str)) and str(y).isdigit() else None
v2_YearParsed(raw) == IF raw = NONE \/ raw = BADVAL THEN NONE ELSE raw

v2_YearGate(rules, t) ==
    LET y == v2_YearParsed(t.release_year)
    IN y # NONE =>
          /\ ~(rules.min_year # NONE /\ y < rules.min_year)
          /\ ~(rules.max_year # NONE /\ y > rules.max_year)

v2_PopGate(rules, t) ==
    LET pop == PopOrZero(t.popularity)
    IN /\ ~(rules.popularity_min # NONE /\ pop < rules.popularity_min)
       /\ ~(rules.popularity_max # NONE /\ pop > rules.popularity_max)

\* passes_rules(target_genre, track) of v2.py
v2_passes_rules(target_genre, t, table) ==
    LET rules == RulesGet(table, Lower(target_genre))
        req == rules.require_artist_genres_any
    IN IF rules = EmptyRules THEN TRUE
       ELSE IF v2_DenyTagHit(rules, t) THEN FALSE
       ELSE IF req # << >> /\ v2_Overlap(rules, t) < 1 THEN FALSE
       ELSE IF req # << >> /\ Lower(target_genre) \in TrickyBuckets /\ v2_Overlap(rules, t) < 2 THEN FALSE
       ELSE IF NameDenyHit(rules, t) THEN FALSE
       ELSE v2_YearGate(rules, t) /\ v2_PopGate(rules, t)

\* ------------------------------------------------------------------------
\* Rule evaluator of test.py
\* ------------------------------------------------------------------------
\* Mutant: the rule's deny list alone, EXCLUSIONS[genre_key] left out
merged_deny_genres_rules_only(genre_key, rules) ==
    test_norm_tags(rules.deny_artist_genres_any)

\* _merged_deny_genres(genre_key, rules)
merged_deny_genres(genre_key, rules) ==
    test_norm_tags(rules.deny_artist_genres_any) \cup test_norm_tags(EXCLUSIONS(genre_key))

\* _contains_any(text, needles)
contains_any(text, needles) ==
    \E i \in DOMAIN needles :
        needles[i] # << >> /\ Contains(norm_text(text), Lower(needles[i]))

\* _artist_in_whitelist(artist, wl)
artist_in_whitelist(artist, wl) ==
    \E i \in DOMAIN wl : Lower(Strip(artist)) = Lower(Strip(wl[i]))

\* year_of / popularity_of: the number, or None when missing or unparseable
test_NumberOf(raw) == IF raw \in {NONE, NULLVAL, BADVAL} THEN NONE ELSE raw

\* Year window of test.py: a configured bound rejects an unknown year
test_YearGate(rules, t) ==
    LET y == test_NumberOf(t.release_year)
    IN /\ ~(rules.min_year # NONE /\ (y = NONE \/ y < rules.min_year))
       /\ ~(rules.max_year # NONE /\ (y = NONE \/ y > rules.max_year))

\* Popularity window of test.py: a configured bound rejects an unknown popularity
test_PopGate(rules, t) ==
    LET pop == test_NumberOf(t.popularity)
    IN /\ ~(rules.popularity_min # NONE /\ (pop = NONE \/ pop < rules.popularity_min))
       /\ ~(rules.popularity_max # NONE /\ (pop = NONE \/ pop > rules.popularity_max))

\* passes_rules(genre_key, track, rules) of test.py
test_passes_rules(genre_key, t, rules) ==
    LET a_genres == test_norm_tags(t.artist_genres)
        req_any == test_norm_tags(rules.require_artist_genres_any)
        req_all == test_norm_tags(rules.require_artist_genres_all)
    IN IF a_genres = {} /\ (rules.require_artist_genres_any # << >> \/ rules.require_artist_genres_all # << >>)
       THEN FALSE
       ELSE IF rules.require_artist_genres_any # << >> /\ a_genres \cap req_any = {} THEN FALSE
       ELSE IF rules.require_artist_genres_all # << >> /\ ~(req_all \subseteq a_genres) THEN FALSE
       ELSE IF a_genres \cap merged_deny_genres(genre_key, rules) # {} THEN FALSE
       ELSE IF rules.deny_name_contains # << >> /\ contains_any(t.name, rules.deny_name_contains) THEN FALSE
       ELSE IF ~test_YearGate(rules, t) THEN FALSE
       ELSE IF ~test_PopGate(rules, t) THEN FALSE
       ELSE IF rules.whitelist_only /\ rules.whitelist_artists # << >>
               /\ ~artist_in_whitelist(PrimaryArtist(t), rules.whitelist_artists) THEN FALSE
       ELSE TRUE

\* ------------------------------------------------------------------------
\* Exercising the rule evaluators: inputs
\* ------------------------------------------------------------------------
Evaluators == {"killmegod", "v2", "test"}

\* genre keys of the rule table in the model
Genres == {S.nu_metal, S.shoegaze, S.punk}

\* a track record with the fields the pipeline reads
MkTrack(uri, name, artists, tags, year, pop, dance) ==
    [ uri |-> uri, name |-> name, artists |-> artists, artist_genres |-> tags,
      release_year |-> year, popularity |-> pop, danceability |-> dance ]

RuleGenres == {S.nu_metal, S.shoegaze}
RuleTagLists ==
    { << >>, <<S.alternative_rock>>, <<S.nu_metal, S.dance_pop>>, <<S.shoegaze, S.dream_pop>> }
RuleArtistLists == { <<S.Slowdive>>, <<S.slowdive, S.Korn>>, <<S.Riders>>, <<S.Korn>> }
RuleNames == { S.Alison, S.Alison_Live }
RuleYears == { NONE, BADVAL, 1987, 1990 }
RulePops == { NONE, 20, 86 }

RuleTracks ==
    { MkTrack(<<"u">>, n, a, g, y, p, NONE) :
        n \in RuleNames, a \in RuleArtistLists, g \in RuleTagLists,
        y \in RuleYears, p \in RulePops }

\* require lists as the rule tables write them: the genre itself and its neighbours
RuleRequireLists(g) ==
    { << >>, IF g = S.shoegaze THEN <<S.shoegaze, S.dream_pop>> ELSE <<g>> }
\* <<deny_name_contains, deny_artist_contains>>
RuleTextDenies == { << << >>, << >> >>, << <<S.live>>, << >> >>, << << >>, <<S.kor>> >> }
\* <<min_year, max_year>>
RuleYearWindows == { <<NONE, NONE>>, <<1988, 1996>> }
\* <<popularity_min, popularity_max>>
RulePopWindows == { <<NONE, NONE>>, <<20, 85>>, <<NONE, 85>>, <<NONE, 0>> }

RuleRecords(g) ==
    { [ EmptyRules EXCEPT
          !.require_artist_genres_any = req,
          !.deny_artist_genres_any = deny,
          !.deny_name_contains = td[1],
          !.deny_artist_contains = td[2],
          !.whitelist_artists = wl,
          !.min_year = yw[1], !.max_year = yw[2],
          !.popularity_min = pw[1], !.popularity_max = pw[2] ] :
        req \in RuleRequireLists(g),
        deny \in { << >>, <<S.dance_pop>> },
        td \in RuleTextDenies,
        wl \in { << >>, <<S.Slowdive, S.Ride>> },
        yw \in RuleYearWindows,
        pw \in RulePopWindows }

\* the rule table holding record r for genre g and nothing else
TableWith(g, r) == [k \in Genres |-> IF k = g THEN r ELSE EmptyRules]

\* ------------------------------------------------------------------------
\* Exercising the rule evaluators: state machine
\* ------------------------------------------------------------------------
\* the feature step has not been entered
FeatIdle ==
    /\ seed_tracks = << >>
    /\ feat = << >>
    /\ med_year = NONE
    /\ featDone = FALSE

\* no manifest build and no helper call is in progress
RunIdle ==
    /\ pc = "idle"
    /\ completed = << >>
    /\ manifest_file = [state |-> "absent"]
    /\ exit_status = NONE

AuxIdle ==
    /\ RunIdle
    /\ GENRE_TREE = << >>
    /\ manifest = << >>
    /\ manDone = FALSE
    /\ call = << >>
    /\ ret = << >>

\* the selection loop has not been entered
SelIdle ==
    /\ tracks = << >>
    /\ noise = "flat"
    /\ pos = 0
    /\ results = << >>
    /\ global_seen_ids = {}
    /\ global_seen_artists = {}

InitRules ==
    /\ evaluator \in Evaluators
    /\ genre \in RuleGenres
    /\ track \in RuleTracks
    /\ \E r \in RuleRecords(genre) : GENRE_RULES = TableWith(genre, r)
    /\ done = FALSE
    /\ verdict = FALSE
    /\ script = "none"
    /\ FeatIdle
    /\ SelIdle
    /\ AuxIdle

\* killmegod.py: passes_rules(genre, track)
EvalKillmegod ==
    /\ evaluator = "killmegod" /\ ~done
    /\ verdict' = passes_rules(genre, track, GENRE_RULES)
    /\ done' = TRUE
    /\ UNCHANGED <<evaluator, genre, track, GENRE_RULES, script, featVars, selVars, auxVars>>

\* v2.py: passes_rules(genre, track)
EvalV2 ==
    /\ evaluator = "v2" /\ ~done
    /\ verdict' = v2_passes_rules(genre, track, GENRE_RULES)
    /\ done' = TRUE
    /\ UNCHANGED <<evaluator, genre, track, GENRE_RULES, script, featVars, selVars, auxVars>>

\* test.py: passes_rules(genre, track, GENRE_RULES.get(genre, {}))
EvalTest ==
    /\ evaluator = "test" /\ ~done
    /\ verdict' = test_passes_rules(genre, track, RulesGet(GENRE_RULES, genre))
    /\ done' = TRUE
    /\ UNCHANGED <<evaluator, genre, track, GENRE_RULES, script, featVars, selVars, auxVars>>

NextRules == EvalKillmegod \/ EvalV2 \/ EvalTest

SpecRules == InitRules /\ [][NextRules]_vars

\* ------------------------------------------------------------------------
\* Properties of the rule evaluators
\* ------------------------------------------------------------------------
\* the rule record the evaluation reads
CurRules == RulesGet(GENRE_RULES, genre)

\* the evaluator e applied to track t under rule table `table`
EvalWith(e, g, t, table) ==
    CASE e = "killmegod" -> passes_rules(g, t, table)
      [] e = "v2" -> v2_passes_rules(g, t, table)
      [] OTHER -> test_passes_rules(g, t, RulesGet(table, g))

\* some tag of the track equals, ignoring letter case, an entry of the deny list
TagEqualsDenyEntry ==
    \E i \in DOMAIN CurRules.deny_artist_genres_any :
        \E j \in DOMAIN track.artist_genres :
            Lower(track.artist_genres[j]) = Lower(CurRules.deny_artist_genres_any[i])

\* some tag of the track holds an entry of the deny list as whole words
TagHoldsDenyEntry ==
    \E i \in DOMAIN CurRules.deny_artist_genres_any :
        \E j \in DOMAIN track.artist_genres :
            BoundarySearch(Lower(CurRules.deny_artist_genres_any[i]), Lower(track.artist_genres[j]))

\* the title holds a denied title substring
TitleHoldsDeniedToken ==
    \E i \in DOMAIN CurRules.deny_name_contains :
        Contains(Lower(track.name), Lower(CurRules.deny_name_contains[i]))

\* the primary artist holds a denied artist substring
ArtistHoldsDeniedToken ==
    \E i \in DOMAIN CurRules.deny_artist_contains :
        Contains(Lower(PrimaryArtist(track)), Lower(CurRules.deny_artist_contains[i]))

\* the primary artist equals, ignoring letter case, an entry of the whitelist
ArtistOnWhitelist ==
    \E i \in DOMAIN CurRules.whitelist_artists :
        Lower(PrimaryArtist(track)) = Lower(CurRules.whitelist_artists[i])

\* some tag satisfies the require-any list (or no such list is configured)
RequireAnySatisfied ==
    \/ CurRules.require_artist_genres_any = << >>
    \/ \E i \in DOMAIN CurRules.require_artist_genres_any :
         \E j \in DOMAIN track.artist_genres :
            BoundarySearch(Lower(CurRules.require_artist_genres_any[i]), Lower(track.artist_genres[j]))

\* C4: if any tag of the track matches an entry of the genre's deny list (it
\* equals the entry, or for the boundary/substring evaluators holds it as whole
\* words), every rule evaluator rejects the track, whatever the require-any list
\* and the whitelist say.
C4_DenyTakesPrecedence ==
    (done /\ (TagEqualsDenyEntry \/ (evaluator \in {"killmegod", "v2"} /\ TagHoldsDenyEntry)))
        => ~verdict

\* C4 witness: tags {nu metal, dance pop} against nu metal with deny {dance pop},
\* require {nu metal} and a whitelisted primary artist: rejected by killmegod.py.
C4_Witness ==
    /\ done /\ evaluator = "killmegod" /\ genre = S.nu_metal
    /\ track.artist_genres = <<S.nu_metal, S.dance_pop>>
    /\ CurRules.deny_artist_genres_any = <<S.dance_pop>>
    /\ CurRules.require_artist_genres_any = <<S.nu_metal>>
    /\ ArtistOnWhitelist
    /\ ~verdict

\* C5: a track whose primary artist is on the genre's whitelist (and that no deny
\* check excludes) is admitted by killmegod.py's evaluator even when none of its
\* tags satisfies the require-any list.
C5_WhitelistAdmitsWithoutRequiredTag ==
    (/\ done /\ evaluator = "killmegod"
     /\ ArtistOnWhitelist
     /\ ~TagHoldsDenyEntry /\ ~TitleHoldsDeniedToken /\ ~ArtistHoldsDeniedToken)
        => verdict

\* C6: the title-based name-deny check comes before the whitelist bypass: a track
\* whose title holds a denied title substring is rejected, also when its primary
\* artist is whitelisted for the genre.
C6_NameDenyBeforeWhitelist ==
    (done /\ TitleHoldsDeniedToken) => ~verdict

\* C6 witness: a whitelisted artist's live version that passes the tag checks is
\* rejected by killmegod.py.
C6_Witness ==
    /\ done /\ evaluator = "killmegod"
    /\ ArtistOnWhitelist /\ TitleHoldsDeniedToken
    /\ ~TagHoldsDenyEntry /\ RequireAnySatisfied
    /\ ~verdict

\* C7: in killmegod.py the year and popularity gates are skipped exactly for the
\* tracks whose primary artist equals, ignoring case, a whitelist entry: such a
\* track that cleared the earlier checks is admitted whatever its year and
\* popularity, and every other track gets both numeric gates.
C7_BypassExactlyForWhitelisted ==
    (/\ done /\ evaluator = "killmegod"
     /\ ~TagHoldsDenyEntry /\ RequireAnySatisfied
     /\ ~TitleHoldsDeniedToken /\ ~ArtistHoldsDeniedToken)
        => IF ArtistOnWhitelist
           THEN verdict
           ELSE verdict = (YearGate(CurRules, track) /\ PopGate(CurRules, track))

\* the rule table with every year window removed
NoYearWindow(table) ==
    [k \in DOMAIN table |-> [table[k] EXCEPT !.min_year = NONE, !.max_year = NONE]]

\* the rule table with every popularity window removed
NoPopWindow(table) ==
    [k \in DOMAIN table |-> [table[k] EXCEPT !.popularity_min = NONE, !.popularity_max = NONE]]

\* C8: a track whose release year is missing or unparseable is never rejected by
\* the year window: in every rule evaluator its verdict is the one it gets with
\* the year window removed from the rules.
C8_UnknownYearFailsOpen ==
    (done /\ track.release_year \in {NONE, BADVAL})
        => verdict = EvalWith(evaluator, genre, track, NoYearWindow(GENRE_RULES))

\* the popularity, a missing value read as 0, lies within the inclusive window
PopWithinWindow ==
    LET pop == IF track.popularity = NONE THEN 0 ELSE track.popularity
    IN /\ ~(CurRules.popularity_min # NONE /\ pop < CurRules.popularity_min)
       /\ ~(CurRules.popularity_max # NONE /\ pop > CurRules.popularity_max)

\* C9: for a track that reaches the popularity gate (it passes everything else and
\* is not let through by the whitelist bypass), the gate rejects exactly when the
\* popularity, missing read as 0, is strictly below popularity_min or strictly
\* above popularity_max, for every configured bound value.
C9_PopularityGateInclusive ==
    (/\ done
     /\ EvalWith(evaluator, genre, track, NoPopWindow(GENRE_RULES))
     /\ ~(evaluator = "killmegod" /\ WhitelistHit(CurRules, track)))
        => verdict = PopWithinWindow


\* ------------------------------------------------------------------------
\* Feature summaries of a seed list (killmegod.py and v2.py)
\* Feature values are integers in hundredths; a median is carried in half
\* hundredths (twice its value) so that the mean of two middle values is exact.
\* ------------------------------------------------------------------------
\* the feature fields that the track records of the model carry
FEATURE_FIELDS == {"danceability", "popularity"}

\* sorted(vals)
sorted(vals) == SortSeq(vals, LAMBDA a, b : a < b)

\* median_sorted of killmegod.py (result in half units)
median_sorted(vals) ==
    LET n == Len(vals)
        mid == n \div 2
    IN IF n % 2 = 1 THEN 2 * vals[mid + 1]
       ELSE vals[mid] + vals[mid + 1]

\* median of killmegod.py
median(vals) == median_sorted(sorted(vals))

\* median_sorted of v2.py (result in half units)
v2_median_sorted(vals) ==
    LET n == Len(vals)
        mid == n \div 2
    IN IF n % 2 = 1 THEN 2 * vals[mid + 1]
       ELSE 2 * vals[mid]

\* median of v2.py
v2_median(vals) == v2_median_sorted(sorted(vals))

\* sround(x, 2) of a value x given in half hundredths: the hundredths that
\* round() may return (a half is rounded to either neighbour, depending on
\* the binary representation of x)
sround(h) ==
    IF h % 2 = 0 THEN {h \div 2} ELSE {(h - 1) \div 2, (h + 1) \div 2}

\* the values of field f over the seeds, skipping None and values float() rejects
FeatureVals(seeds, f) ==
    SelectSeq([i \in DOMAIN seeds |-> seeds[i][f]], LAMBDA v : v # NONE /\ v # BADVAL)

\* the release years of the seeds, skipping None and values int() rejects
YearVals(seeds) ==
    SelectSeq([i \in DOMAIN seeds |-> seeds[i].release_year], LAMBDA v : v # NONE /\ v # BADVAL)

\* median / median_sorted as defined by the script that runs
MedianOf(s, vals) == IF s = "v2" THEN v2_median(vals) ELSE median(vals)
MedianSortedOf(s, vals) == IF s = "v2" THEN v2_median_sorted(vals) ELSE median_sorted(vals)

\* compute_features_from_tracks(seed_tracks) of script s: the (feat, med_year)
\* pairs it may return; a field without values gets no key (NONE)
compute_features_from_tracks(s, seeds) ==
    LET out(f) == IF FeatureVals(seeds, f) = << >> THEN {NONE}
                  ELSE sround(MedianOf(s, FeatureVals(seeds, f)))
        years == YearVals(seeds)
        my == IF years = << >> THEN NONE ELSE MedianSortedOf(s, sorted(years)) \div 2
    IN { [ feat |-> [f \in FEATURE_FIELDS |-> IF f = "danceability" THEN d ELSE p],
           med_year |-> my ] :
         d \in out("danceability"), p \in out("popularity") }

\* seed lists hold at most this many tracks in the feature runs
MaxFeatSeeds == 4

\* seed tracks with known, missing and unparseable feature values
FeatTracks ==
    { MkTrack(<<"1">>, S.Alison, <<S.Slowdive>>, << >>, 1990, 50, 20),
      MkTrack(<<"2">>, S.Alison, <<S.Ride>>, << >>, NONE, NONE, 40),
      MkTrack(<<"3">>, S.Alison, <<S.Korn>>, << >>, 1991, 30, 41),
      MkTrack(<<"4">>, S.Alison, <<S.Riders>>, << >>, BADVAL, 60, NONE),
      MkTrack(<<"5">>, S.Alison_Live, <<S.slowdive>>, << >>, 1994, BADVAL, BADVAL),
      MkTrack(<<"6">>, S.Alison_Live, <<S.kor>>, << >>, 1987, 86, 70) }

\* seed lists: sequences of distinct tracks
FeatSeedLists ==
    UNION { { l \in [1..n -> FeatTracks] : \A i, j \in 1..n : i # j => l[i] # l[j] } :
            n \in 0..MaxFeatSeeds }

\* no rule evaluation is in progress
RulesIdle ==
    /\ evaluator = "none"
    /\ genre = << >>
    /\ track = << >>
    /\ GENRE_RULES = << >>
    /\ done = FALSE
    /\ verdict = FALSE

InitFeatures ==
    /\ RulesIdle
    /\ script \in {"killmegod", "v2"}
    /\ seed_tracks \in FeatSeedLists
    /\ feat = << >>
    /\ med_year = NONE
    /\ featDone = FALSE
    /\ SelIdle
    /\ AuxIdle

\* killmegod.py: feat, med_year = compute_features_from_tracks(seed_tracks)
ComputeFeaturesKillmegod ==
    /\ script = "killmegod" /\ ~featDone
    /\ \E r \in compute_features_from_tracks("killmegod", seed_tracks) :
          /\ feat' = r.feat
          /\ med_year' = r.med_year
    /\ featDone' = TRUE
    /\ UNCHANGED <<ruleVars, script, seed_tracks, selVars, auxVars>>

\* v2.py: feat, med_year = compute_features_from_tracks(seed_tracks)
ComputeFeaturesV2 ==
    /\ script = "v2" /\ ~featDone
    /\ \E r \in compute_features_from_tracks("v2", seed_tracks) :
          /\ feat' = r.feat
          /\ med_year' = r.med_year
    /\ featDone' = TRUE
    /\ UNCHANGED <<ruleVars, script, seed_tracks, selVars, auxVars>>

NextFeatures == ComputeFeaturesKillmegod \/ ComputeFeaturesV2

SpecFeatures == InitFeatures /\ [][NextFeatures]_vars

\* ------------------------------------------------------------------------
\* Properties of the feature summaries
\* ------------------------------------------------------------------------
\* twice the median of the non-null values of field f over the seed list: the
\* sum of the two middle order statistics (which coincide for an odd count)
SeedMedianTwice(f) ==
    LET s == sorted(FeatureVals(seed_tracks, f))
        n == Len(s)
    IN s[(n + 1) \div 2] + s[(n + 2) \div 2]

\* the emitted value v is the median of field f, to the two decimals emitted
EmittedIsMedian(f, v) ==
    /\ v # NONE
    /\ 2 * v - SeedMedianTwice(f) <= 1
    /\ SeedMedianTwice(f) - 2 * v <= 1

\* C10: for a node with direct seeds, each emitted feature value equals (to the
\* two decimals emitted) the median of that feature over the seeds whose value
\* is non-null, for seed lists of odd and of even length alike, in killmegod.py
\* and in v2.py.
C10_FeatureIsMedianOfNonNullSeeds ==
    featDone =>
        \A f \in FEATURE_FIELDS :
            FeatureVals(seed_tracks, f) # << >> => EmittedIsMedian(f, feat[f])

\* ------------------------------------------------------------------------
\* Seed selection: configuration and rule tables of the scripts
\* ------------------------------------------------------------------------
\* CONFIG['seeds_per_genre'] of killmegod.py
seeds_per_genre == 5
\* the size the synthetic pass of killmegod.py fills a node to
synthetic_target == 5
\* the size v2.py fills top_k to
v2_top_k == 4
\* the default K of test.py's select_seeds_for_genre
test_K == 4
\* SEEDS_PER_GENRE_DEFAULT of extract_genre_seeds_patched_help.py
SEEDS_PER_GENRE_DEFAULT == 4
\* target_min of v2.py's relax_rules_if_sparse
relax_target_min == 4

\* whitelist_artists of the shoegaze rule record
SHOEGAZE_WHITELIST ==
    << <<"M", "y", " ", "B", "l", "o", "o", "d", "y", " ", "V", "a", "l", "e", "n", "t", "i", "n", "e">>,
       <<"S", "l", "o", "w", "d", "i", "v", "e">>,
       <<"R", "i", "d", "e">>,
       <<"L", "u", "s", "h">>,
       <<"C", "h", "a", "p", "t", "e", "r", "h", "o", "u", "s", "e">>,
       <<"P", "a", "l", "e", " ", "S", "a", "i", "n", "t", "s">>,
       <<"N", "o", "t", "h", "i", "n", "g">>,
       <<"W", "h", "i", "r", "r">>,
       <<"M", "e", "d", "i", "c", "i", "n", "e">>,
       <<"C", "a", "t", "h", "e", "r", "i", "n", "e", " ", "W", "h", "e", "e", "l">>,
       <<"C", "o", "c", "t", "e", "a", "u", " ", "T", "w", "i", "n", "s">>,
       <<"D", "I", "I", "V">> >>

\* the deny_name_contains tokens of the shoegaze rule record
SHOEGAZE_DENY_NAME ==
    << <<"r", "e", "m", "i", "x">>, S.live, <<"e", "d", "i", "t">> >>

\* GENRE_RULES of killmegod.py for the genres of the selection runs; lists
\* are cut to the entries that a tag, artist or title of the model can meet
killmegod_GENRE_RULES ==
    [ k \in {S.alternative_rock, S.shoegaze} |->
        IF k = S.alternative_rock
        THEN [ EmptyRules EXCEPT
                 !.require_artist_genres_any = <<S.alternative_rock>>,
                 !.deny_artist_genres_any = <<S.punk, S.nu_metal>>,
                 !.whitelist_artists = <<S.Bush, S.Weezer>>,
                 !.min_year = 1985, !.max_year = 2024,
                 !.popularity_min = 35, !.popularity_max = 90 ]
        ELSE [ EmptyRules EXCEPT
                 !.require_artist_genres_any = <<S.shoegaze, S.dream_pop>>,
                 !.deny_artist_genres_any = <<S.dance_pop>>,
                 !.whitelist_artists = SHOEGAZE_WHITELIST,
                 !.deny_name_contains = SHOEGAZE_DENY_NAME,
                 !.min_year = 1988, !.max_year = 2024,
                 !.popularity_min = 15, !.popularity_max = 80 ] ]

\* GENRE_RULES of v2.py after its patches, and of test.py: the records of
\* alternative rock and shoegaze carry no year or popularity bound
v2_GENRE_RULES ==
    [ k \in {S.alternative_rock, S.shoegaze} |->
        IF k = S.alternative_rock
        THEN [ EmptyRules EXCEPT
                 !.require_artist_genres_any = <<S.alternative_rock, S.grunge>>,
                 !.deny_artist_genres_any = <<S.dance_pop, S.pop>> ]
        ELSE [ EmptyRules EXCEPT
                 !.require_artist_genres_any = <<S.shoegaze, S.dream_pop>>,
                 !.deny_artist_genres_any = <<S.dance_pop>>,
                 !.whitelist_artists = SHOEGAZE_WHITELIST,
                 !.deny_name_contains = SHOEGAZE_DENY_NAME ] ]

\* ADJACENT.get(genre, []) of relax_rules_if_sparse
ADJACENT(g) == IF g = S.shoegaze THEN <<S.dream_pop, S.indie_rock>> ELSE << >>

\* ------------------------------------------------------------------------
\* Seed selection: datasets
\* ------------------------------------------------------------------------
\* how many tracks without popularity, year or audio features a dataset may hold
MaxFillers == 10

\* tracks that carry a popularity and a year
CoreTracks ==
    << MkTrack(<<"c", "1">>, S.Alison, <<S.Bush>>,
               <<S.alternative_rock, S.rock>>, 1995, 70, NONE),
       MkTrack(<<"c", "2">>, S.Leave, <<S.Weezer>>,
               <<S.alternative_rock, S.rock>>, 1996, 60, NONE),
       MkTrack(<<"c", "3">>, S.Alison, <<S.Slowdive>>,
               <<S.alternative_rock, S.rock>>, 1993, 45, NONE),
       MkTrack(<<"c", "4">>, S.Leave, <<SHOEGAZE_WHITELIST[1]>>,
               <<S.shoegaze, S.dream_pop>>, 1990, 40, NONE),
       MkTrack(<<"c", "5">>, S.Alison_Live, <<S.Korn>>,
               <<S.rock>>, 1994, 40, NONE),
       MkTrack(<<"c", "6">>, S.Alison, << >>,
               <<S.shoegaze, S.dream_pop>>, 1991, 50, NONE) >>

\* a track of a whitelisted shoegaze artist whose record has no popularity,
\* release_year or audio-feature key
FillerTrack(i) ==
    MkTrack(<<"w">> \o SHOEGAZE_WHITELIST[i], S.Alison, <<SHOEGAZE_WHITELIST[i]>>,
            <<S.shoegaze, S.dream_pop>>, NONE, NONE, NONE)

\* the datasets: any of the core tracks, in order, then the first n fillers
Datasets ==
    { SelectSeq(CoreTracks, LAMBDA t : t \in keep) \o [i \in 1..n |-> FillerTrack(i)] :
        keep \in SUBSET { CoreTracks[i] : i \in DOMAIN CoreTracks }, n \in 0..MaxFillers }

\* ------------------------------------------------------------------------
\* Seed selection: list helpers
\* ------------------------------------------------------------------------
RECURSIVE Flatten(_)
\* the concatenation of a list of lists
Flatten(ss) == IF ss = << >> THEN << >> ELSE Head(ss) \o Flatten(Tail(ss))

RECURSIVE Uniq(_)
\* the first occurrence of every element, in order (dict key insertion order)
Uniq(xs) ==
    IF xs = << >> THEN << >>
    ELSE LET init == Uniq(SubSeq(xs, 1, Len(xs) - 1))
             last == xs[Len(xs)]
         IN IF \E i \in DOMAIN init : init[i] = last THEN init ELSE Append(init, last)

RECURSIVE InsertDesc(_, _, _)
\* index i placed behind every index whose key is at least key[i]
InsertDesc(order, i, key) ==
    IF order = << >> THEN <<i>>
    ELSE IF key[Head(order)] >= key[i]
         THEN <<Head(order)>> \o InsertDesc(Tail(order), i, key)
         ELSE <<i>> \o order

RECURSIVE SortOrderDesc(_, _)
\* list.sort(key=..., reverse=True): descending by key, equal keys keep
\* their original order
SortOrderDesc(n, key) ==
    IF n = 0 THEN << >> ELSE InsertDesc(SortOrderDesc(n - 1, key), n, key)

\* the items in the order given by a list of indices
Permuted(items, order) == [j \in DOMAIN order |-> items[order[j]]]

SortedDesc(items, key) == Permuted(items, SortOrderDesc(Len(items), key))

\* random.random() * scale added to the score of the i-th scored track:
\* either negligible for every track, or growing with the position
NoiseAt(i, max) == IF noise = "rising" THEN (IF i - 1 < max THEN i - 1 ELSE max) ELSE 0

Abs(x) == IF x < 0 THEN -x ELSE x

\* ------------------------------------------------------------------------
\* Seed selection: the work lists gathered from the taxonomy.  A taxonomy
\* node is a record [kind, _seeds, _alias, subgenres]; see the section on
\* manifest building for the encoding
\* ------------------------------------------------------------------------
\* a taxonomy node with the given seed key, alias and children
TreeNode(seeds_key, alias_key, items) ==
    [ kind |-> "dict", _seeds |-> seeds_key, _alias |-> alias_key,
      subgenres |-> IF items = << >> THEN [kind |-> "absent"]
                    ELSE [kind |-> "dict", items |-> items] ]

\* the part of GENRE_TREE that the selection loop of the model runs over
RockTree ==
    << [ name |-> S.rock,
         node |-> TreeNode(S.rock, << >>,
            << [ name |-> S.Modern,
                 node |-> TreeNode(S.__synthetic__, << >>,
                    << [name |-> S.alternative_rock,
                        node |-> TreeNode(S.alternative_rock, << >>, << >>)],
                       [name |-> S.shoegaze,
                        node |-> TreeNode(S.shoegaze, << >>, << >>)] >>) ] >>) ] >>

\* gather_playable_genres(tree) with the visit order reversed: the children
\* of a node before the node itself
gather_playable_genres_children_first(tree_items) ==
    LET RECURSIVE walk(_)
        walk(node) ==
            IF node.kind # "dict" THEN << >>
            ELSE (IF node.subgenres.kind = "dict"
                  THEN Flatten([i \in DOMAIN node.subgenres.items |->
                                   walk(node.subgenres.items[i].node)])
                  ELSE << >>)
                 \o (IF node._seeds # << >> /\ node._seeds # S.__synthetic__
                     THEN <<node._seeds>> ELSE << >>)
    IN Uniq(Flatten([r \in DOMAIN tree_items |-> walk(tree_items[r].node)]))

\* gather_playable_genres(tree): the seed keys of the tree, a node before
\* its subgenres and the subgenres in key order, every key once
gather_playable_genres(tree_items) ==
    LET RECURSIVE walk(_)
        walk(node) ==
            IF node.kind # "dict" THEN << >>
            ELSE (IF node._seeds # << >> /\ node._seeds # S.__synthetic__
                  THEN <<node._seeds>> ELSE << >>)
                 \o (IF node.subgenres.kind = "dict"
                     THEN Flatten([i \in DOMAIN node.subgenres.items |->
                                      walk(node.subgenres.items[i].node)])
                     ELSE << >>)
    IN Uniq(Flatten([r \in DOMAIN tree_items |-> walk(tree_items[r].node)]))

\* gather_synthetic_genres(tree): every "__synthetic__" node that has a
\* direct child with a seed key of its own, with the seed keys of those
\* children, in the order of the walk
gather_synthetic_genres(tree_items) ==
    LET kids(node) ==
            IF node.subgenres.kind = "dict" THEN node.subgenres.items ELSE << >>
        real(c) == /\ c.node.kind = "dict" /\ c.node._seeds # << >>
                   /\ c.node._seeds # S.__synthetic__
        children_seeds(node) ==
            LET own == SelectSeq(kids(node), real)
            IN [i \in DOMAIN own |-> own[i].node._seeds]
        RECURSIVE walk(_, _)
        walk(node, node_name) ==
            IF node.kind # "dict" THEN << >>
            ELSE (IF node._seeds = S.__synthetic__ /\ children_seeds(node) # << >>
                  THEN << [ display_name |-> node_name,
                            child_seeds |-> children_seeds(node) ] >>
                  ELSE << >>)
                 \o Flatten([i \in DOMAIN kids(node) |->
                                walk(kids(node)[i].node, kids(node)[i].name)])
    IN Flatten([r \in DOMAIN tree_items |->
                   walk(tree_items[r].node, tree_items[r].name)])

\* PLAYABLE_GENRES = gather_playable_genres(GENRE_TREE)
PLAYABLE_GENRES == gather_playable_genres(RockTree)

\* synthetic_genres = gather_synthetic_genres(GENRE_TREE)
synthetic_genres == gather_synthetic_genres(RockTree)

\* ------------------------------------------------------------------------
\* Seed selection of killmegod.py: index, matcher, scorer
\* ------------------------------------------------------------------------
\* norm_tags(tags): lowercased, trimmed, empty entries skipped
norm_tags(tags) ==
    LET lowered(kept) == [i \in DOMAIN kept |-> Strip(Lower(kept[i]))]
    IN lowered(SelectSeq(tags, LAMBDA g : g # << >>))

\* the keys of tracks_by_genre in insertion order
IndexKeys(ds) == Uniq(Flatten([i \in DOMAIN ds |-> norm_tags(ds[i].artist_genres)]))

\* tracks_by_genre[key]: a track is appended once per tag equal to the key
tracks_by_genre(ds, key) ==
    Flatten([i \in DOMAIN ds |->
        LET hits == SelectSeq(norm_tags(ds[i].artist_genres), LAMBDA g : g = key)
        IN [j \in DOMAIN hits |-> ds[i]]])

\* genre_match with plain substring containment in place of the word-boundary search
genre_match_substring(search_genre, track_genres) ==
    LET excl == EXCLUSIONS(search_genre)
        sg == Strip(Lower(search_genre))
    IN /\ ~ \E e \in DOMAIN excl, j \in DOMAIN track_genres :
              Contains(Lower(track_genres[j]), Lower(excl[e]))
       /\ \E j \in DOMAIN track_genres :
              Contains(Strip(Lower(track_genres[j])), sg)

\* genre_match(search_genre, track_genres)
genre_match(search_genre, track_genres) ==
    LET excl == EXCLUSIONS(search_genre)
        sg == Strip(Lower(search_genre))
    IN /\ ~ \E e \in DOMAIN excl, j \in DOMAIN track_genres :
              Contains(Lower(track_genres[j]), Lower(excl[e]))
       /\ \E j \in DOMAIN track_genres :
              LET t == Strip(Lower(track_genres[j]))
              IN t = sg \/ BoundarySearch(sg, t)

\* ((t.get("artists") or [""])[0] or "").strip().lower()
ArtistKey(t) == Lower(Strip(PrimaryArtist(t)))

\* Mutant: the tracks of the matching buckets are candidates once they have
\* an id and match the genre; the rules of the genre are not consulted
Candidates_without_rules(g, ds, table) ==
    LET from(keys) ==
            Flatten([k \in DOMAIN keys |->
                IF BoundarySearch(Lower(g), keys[k])
                THEN SelectSeq(tracks_by_genre(ds, keys[k]),
                               LAMBDA t : /\ t.uri # << >>
                                          /\ genre_match(g, norm_tags(t.artist_genres)))
                ELSE << >>])
    IN from(IndexKeys(ds))

\* the tracks of every index bucket whose key holds the genre as a word,
\* kept when they have an id, match the genre and pass its rules
Candidates(g, ds, table) ==
    LET from(keys) ==
            Flatten([k \in DOMAIN keys |->
                IF BoundarySearch(Lower(g), keys[k])
                THEN SelectSeq(tracks_by_genre(ds, keys[k]),
                               LAMBDA t : /\ t.uri # << >>
                                          /\ genre_match(g, norm_tags(t.artist_genres))
                                          /\ passes_rules(g, t, table))
                ELSE << >>])
    IN from(IndexKeys(ds))

RECURSIVE LocalUnique(_, _, _)
\* the per-genre pass that keeps the first track of every id and artist and
\* drops tracks without an id or a primary artist
LocalUnique(cands, seen_ids, seen_artists) ==
    IF cands = << >> THEN << >>
    ELSE LET t == Head(cands)
             artist == Strip(PrimaryArtist(t))
         IN IF \/ t.uri = << >> \/ artist = << >>
               \/ t.uri \in seen_ids \/ Lower(artist) \in seen_artists
            THEN LocalUnique(Tail(cands), seen_ids, seen_artists)
            ELSE <<t>> \o LocalUnique(Tail(cands), seen_ids \cup {t.uri},
                                      seen_artists \cup {Lower(artist)})

\* pop_component(pop, 69, 5, 55, 0.5) in hundredths
pop_component(pop) ==
    LET delta == Abs(pop - 69)
    IN IF delta <= 5 THEN 50 ELSE IF delta >= 55 THEN 0 ELSE 55 - delta

\* proto_score(target_genre, t) without its noise term, in hundredths; the
\* rule records of the model hold no boost_artist_contains and no
\* allow_artist_genres_any list; a track without a popularity key scores as 0
proto_score(target_genre, t, table) ==
    LET tags == norm_tags(t.artist_genres)
        target == Lower(target_genre)
        rules == RulesGet(table, target)
        whitelist == rules.whitelist_artists
        deny == rules.deny_artist_genres_any
        exact == IF \E i \in DOMAIN tags : tags[i] = target THEN 250 ELSE 0
        whitelist_bonus ==
            IF \E a \in DOMAIN t.artists, w \in DOMAIN whitelist :
                   Contains(Lower(t.artists[a]), Lower(whitelist[w]))
            THEN 150 ELSE 0
        pop == IF t.popularity = NONE THEN 0 ELSE t.popularity
        contam ==
            IF \E i \in DOMAIN tags : Contains(tags[i], S.dance_pop) \/ Contains(tags[i], S.pop)
            THEN -30 ELSE 0
        deny_penalty ==
            IF \E d \in DOMAIN deny, i \in DOMAIN tags : Lower(deny[d]) = tags[i]
            THEN -50 ELSE 0
    IN exact + whitelist_bonus + pop_component(pop) + contam + deny_penalty

\* Mutant: the run-wide test looks at the track id only
GloballySeen_id_only(tid, artist, ids, artists) == tid \in ids

\* one test of the final pick: the id or the artist was selected before
GloballySeen(tid, artist, ids, artists) == tid \in ids \/ artist \in artists

RECURSIVE PickGlobal(_, _, _, _, _)
\* the final pick: walk the list, stop at k seeds, skip what the run has
\* already selected, and record every pick in the run-wide sets
PickGlobal(list, k, top, ids, artists) ==
    IF list = << >> \/ Len(top) >= k
    THEN [ top |-> top, ids |-> ids, artists |-> artists ]
    ELSE LET t == Head(list)
         IN IF GloballySeen(t.uri, ArtistKey(t), ids, artists)
            THEN PickGlobal(Tail(list), k, top, ids, artists)
            ELSE PickGlobal(Tail(list), k, Append(top, t),
                            ids \cup {t.uri}, artists \cup {ArtistKey(t)})

\* results[key] = seeds
Assign(res, key, seeds) ==
    [ g \in DOMAIN res \cup {key} |-> IF g = key THEN seeds ELSE res[g] ]

\* the body of the loop over PLAYABLE_GENRES for one genre
select_real(g, ds, table, ids, artists) ==
    LET ranked(unique) ==
            SortedDesc(unique, [i \in DOMAIN unique |->
                                   proto_score(g, unique[i], table) + NoiseAt(i, 4)])
    IN PickGlobal(ranked(LocalUnique(Candidates(g, ds, table), {}, {})),
                  seeds_per_genre, << >>, ids, artists)

\* the loop body raises for the genre: passes_rules raises on a track it is
\* called for, or proto_score, the sort key of every track of `unique`,
\* reaches float(t.get("popularity", 0)) with a null (TypeError) or a
\* non-numeric (ValueError) popularity
select_real_raises(g, ds, table) ==
    LET reached(keys) ==
            Flatten([k \in DOMAIN keys |->
                IF BoundarySearch(Lower(g), keys[k])
                THEN SelectSeq(tracks_by_genre(ds, keys[k]),
                               LAMBDA t : /\ t.uri # << >>
                                          /\ genre_match(g, norm_tags(t.artist_genres)))
                ELSE << >>])
        bad(list) == \E i \in DOMAIN list : list[i].popularity \in {NULLVAL, BADVAL}
        raises_in(list) == \E i \in DOMAIN list : passes_rules_raises(g, list[i], table)
    IN \/ raises_in(reached(IndexKeys(ds)))
       \/ bad(LocalUnique(Candidates(g, ds, table), {}, {}))

\* ------------------------------------------------------------------------
\* Seed selection of killmegod.py: synthetic parents
\* ------------------------------------------------------------------------
\* float('inf'), the distance of a track that shares no feature with the target
INF == 1000000

RECURSIVE SeqSum(_)
SeqSum(xs) == IF xs = << >> THEN 0 ELSE Head(xs) + SeqSum(Tail(xs))

\* compute_aggregate_features(child_genres): per feature the sum and the
\* count of the child seeds' values (the mean is sum / count); has_tracks is
\* false where the function returns None
compute_aggregate_features(child_genres, res) ==
    LET mean_of(all_tracks) ==
            [ has_tracks |-> all_tracks # << >>,
              sum |-> [f \in FEATURE_FIELDS |-> SeqSum(FeatureVals(all_tracks, f))],
              count |-> [f \in FEATURE_FIELDS |-> Len(FeatureVals(all_tracks, f))] ]
    IN mean_of(Flatten([c \in DOMAIN child_genres |->
           IF child_genres[c] \in DOMAIN res THEN res[child_genres[c]] ELSE << >>]))

\* `not aggregate_features`: None, or a dict without any feature
AggregateFalsy(agg) == ~agg.has_tracks \/ \A f \in FEATURE_FIELDS : agg.count[f] = 0

\* feature_distance(track, target_features), in units of 1 / count.  The
\* tracks of the selection runs carry no audio feature, so popularity is
\* the one field that track and target can share, and the root mean square
\* over one term is the absolute difference to the mean
feature_distance(t, agg) ==
    IF agg.count["popularity"] = 0 \/ t.popularity \in {NONE, BADVAL} THEN INF
    ELSE Abs(t.popularity * agg.count["popularity"] - agg.sum["popularity"])

\* the candidates of a synthetic node: per child, the tracks of the matching
\* index buckets that have an unused id, match the child and pass its rules
SyntheticCandidates(child_seeds, ds, table, ids, agg) ==
    LET tagged(kept, child) ==
            [i \in DOMAIN kept |->
                [ track |-> kept[i], child_genre |-> child,
                  distance |-> feature_distance(kept[i], agg) ]]
        from(keys) ==
            Flatten([c \in DOMAIN child_seeds |->
                Flatten([k \in DOMAIN keys |->
                    IF BoundarySearch(Lower(child_seeds[c]), keys[k])
                    THEN tagged(SelectSeq(tracks_by_genre(ds, keys[k]),
                                    LAMBDA t :
                                        /\ t.uri # << >> /\ t.uri \notin ids
                                        /\ genre_match(child_seeds[c], norm_tags(t.artist_genres))
                                        /\ passes_rules(child_seeds[c], t, table)),
                                child_seeds[c])
                    ELSE << >>])])
    IN from(IndexKeys(ds))

RECURSIVE UniqueById(_)
\* the first candidate of every track id
UniqueById(cs) ==
    IF cs = << >> THEN << >>
    ELSE LET init == UniqueById(SubSeq(cs, 1, Len(cs) - 1))
             last == cs[Len(cs)]
         IN IF \E i \in DOMAIN init : init[i].track.uri = last.track.uri
            THEN init ELSE Append(init, last)

\* list.remove at index i
RemoveAt(xs, i) == SubSeq(xs, 1, i - 1) \o SubSeq(xs, i + 1, Len(xs))

RECURSIVE FirstPass(_, _)
\* first pass: for every child the closest candidate the run has not
\* selected yet, removed from the candidate list once taken
FirstPass(children, st) ==
    IF children = << >> \/ Len(st.selected) >= synthetic_target THEN st
    ELSE LET free == { i \in DOMAIN st.cands :
                         /\ st.cands[i].child_genre = Head(children)
                         /\ ~GloballySeen(st.cands[i].track.uri,
                                          ArtistKey(st.cands[i].track),
                                          st.ids, st.artists) }
         IN IF free = {} THEN FirstPass(Tail(children), st)
            ELSE LET i == CHOOSE m \in free : \A o \in free : m <= o
                     t == st.cands[i].track
                 IN FirstPass(Tail(children),
                        [ selected |-> Append(st.selected, t),
                          ids |-> st.ids \cup {t.uri},
                          artists |-> st.artists \cup {ArtistKey(t)},
                          cands |-> RemoveAt(st.cands, i) ])

\* the body of the loop over synthetic_genres for one node
select_synthetic(node, ds, table, res, ids, artists) ==
    LET by_distance(unique) ==
            SortedDesc(unique, [i \in DOMAIN unique |-> 0 - unique[i].distance])
        second_pass(first) ==
            PickGlobal([i \in DOMAIN first.cands |-> first.cands[i].track],
                       synthetic_target, first.selected, first.ids, first.artists)
        select(agg) ==
            IF AggregateFalsy(agg)
            THEN [ top |-> << >>, ids |-> ids, artists |-> artists ]
            ELSE second_pass(FirstPass(node.child_seeds,
                     [ selected |-> << >>, ids |-> ids, artists |-> artists,
                       cands |-> by_distance(UniqueById(
                           SyntheticCandidates(node.child_seeds, ds, table, ids, agg))) ]))
    IN select(compute_aggregate_features(node.child_seeds, res))

\* ------------------------------------------------------------------------
\* Seed selection of killmegod.py: state machine
\* ------------------------------------------------------------------------
\* the selection run of killmegod.py has handled every genre and node
KillmegodDone == pos > Len(PLAYABLE_GENRES) + Len(synthetic_genres)

\* one iteration of `for idx, genre in enumerate(PLAYABLE_GENRES, 1)`
KillmegodSelectReal ==
    /\ script = "killmegod" /\ pos \in 1..Len(PLAYABLE_GENRES)
    /\ exit_status = NONE
    /\ ~select_real_raises(PLAYABLE_GENRES[pos], tracks, GENRE_RULES)
    /\ \E g \in {PLAYABLE_GENRES[pos]} :
       \E picked \in {select_real(g, tracks, GENRE_RULES, global_seen_ids, global_seen_artists)} :
          /\ results' = Assign(results, g, picked.top)
          /\ global_seen_ids' = picked.ids
          /\ global_seen_artists' = picked.artists
    /\ pos' = pos + 1
    /\ UNCHANGED <<ruleVars, script, featVars, tracks, noise, auxVars>>

\* the iteration raises: the exception is not caught and the script ends
KillmegodSelectRaises ==
    /\ script = "killmegod" /\ pos \in 1..Len(PLAYABLE_GENRES)
    /\ exit_status = NONE
    /\ select_real_raises(PLAYABLE_GENRES[pos], tracks, GENRE_RULES)
    /\ exit_status' = 1
    /\ UNCHANGED <<ruleVars, script, featVars, selVars, manVars, funVars,
                   pc, completed, manifest_file>>

\* Mutant: the synthetic pass records the ids of its picks in the run-wide
\* set and leaves the run-wide artist set alone
KillmegodSelectSynthetic_ids_only ==
    /\ script = "killmegod" /\ pos > Len(PLAYABLE_GENRES) /\ ~KillmegodDone
    /\ \E node \in {synthetic_genres[pos - Len(PLAYABLE_GENRES)]} :
       \E picked \in {select_synthetic(node, tracks, GENRE_RULES, results,
                                       global_seen_ids, global_seen_artists)} :
          /\ results' = Assign(results, node.display_name, picked.top)
          /\ global_seen_ids' = picked.ids
    /\ pos' = pos + 1
    /\ UNCHANGED <<ruleVars, script, featVars, tracks, noise, global_seen_artists, auxVars>>

\* one iteration of `for full_path, display_name, child_seeds in synthetic_genres`
KillmegodSelectSynthetic ==
    /\ script = "killmegod" /\ pos > Len(PLAYABLE_GENRES) /\ ~KillmegodDone
    /\ \E node \in {synthetic_genres[pos - Len(PLAYABLE_GENRES)]} :
       \E picked \in {select_synthetic(node, tracks, GENRE_RULES, results,
                                       global_seen_ids, global_seen_artists)} :
          /\ results' = Assign(results, node.display_name, picked.top)
          /\ global_seen_ids' = picked.ids
          /\ global_seen_artists' = picked.artists
    /\ pos' = pos + 1
    /\ UNCHANGED <<ruleVars, script, featVars, tracks, noise, auxVars>>

\* ------------------------------------------------------------------------
\* Seed selection of v2.py
\* ------------------------------------------------------------------------
\* relax_rules_if_sparse(genre, candidates) when fewer than target_min
\* candidates are held: the record of the genre loses its popularity cap,
\* gains the adjacent tags as required tags (list(set(...)): duplicates
\* dropped) and loses the deny tokens "radio edit" and "edit"; a genre
\* without a record is left without one
relax_rules_if_sparse(g, table) ==
    IF g \notin DOMAIN table THEN table
    ELSE [ table EXCEPT ![g] =
             [ @ EXCEPT
                 !.popularity_max = NONE,
                 !.require_artist_genres_any = Uniq(@ \o ADJACENT(g)),
                 !.deny_name_contains =
                     SelectSeq(@, LAMBDA x : x # <<"e", "d", "i", "t">>) ] ]

RECURSIVE v2_Gather(_, _, _, _)
\* the candidate loop over tracks_by_genre.get(genre_lower): the rules are
\* relaxed after every append that leaves the list short
v2_Gather(g, bucket, cands, table) ==
    IF bucket = << >> THEN [ cands |-> cands, table |-> table ]
    ELSE LET t == Head(bucket)
         IN IF genre_match(g, norm_tags(t.artist_genres)) /\ v2_passes_rules(g, t, table)
            THEN v2_Gather(g, Tail(bucket), Append(cands, t),
                           IF Len(cands) + 1 >= relax_target_min THEN table
                           ELSE relax_rules_if_sparse(g, table))
            ELSE v2_Gather(g, Tail(bucket), cands, table)

RECURSIVE v2_Unique(_, _, _, _, _)
\* the de-duplication pass: a track needs an id and an artist, must be new
\* to the run and new to the genre; artists are compared as written
v2_Unique(cands, seen_ids, seen_artists, ids, artists) ==
    IF cands = << >> THEN << >>
    ELSE LET t == Head(cands)
             artist == PrimaryArtist(t)
         IN IF \/ t.uri = << >> \/ artist = << >>
               \/ GloballySeen(t.uri, artist, ids, artists)
               \/ t.uri \in seen_ids \/ artist \in seen_artists
            THEN v2_Unique(Tail(cands), seen_ids, seen_artists, ids, artists)
            ELSE <<t>> \o v2_Unique(Tail(cands), seen_ids \cup {t.uri},
                                    seen_artists \cup {artist}, ids, artists)

\* proto_score(target_genre, t) of v2.py without its jitter, in units of 0.005
v2_proto_score(target_genre, t) ==
    LET tags == norm_tags(t.artist_genres)
        target == Lower(target_genre)
        pop == IF t.popularity = NONE THEN 0 ELSE t.popularity
        exact == IF \E i \in DOMAIN tags : tags[i] = target THEN 500 ELSE 0
        boundary == IF \E i \in DOMAIN tags : BoundarySearch(target, tags[i]) THEN 300 ELSE 0
        has_bad == \E i \in DOMAIN tags : Contains(tags[i], S.pop)
    IN exact + boundary + pop - (IF pop >= 85 THEN 50 ELSE 0)
             - (IF has_bad THEN 60 ELSE 0) - (IF pop >= 90 THEN 30 ELSE 0)

\* the body of the loop over PLAYABLE_GENRES of v2.py for one genre.  The
\* parent of every genre is "" (GENRE_TO_PARENT holds no entry), so the
\* family branches do not run
v2_select(g, ds, table, ids, artists) ==
    LET ranked(unique) ==
            SortedDesc(unique, [i \in DOMAIN unique |->
                                   v2_proto_score(g, unique[i]) + NoiseAt(i, 5)])
        first(list) ==
            SubSeq(list, 1, IF Len(list) < v2_top_k THEN Len(list) ELSE v2_top_k)
        outcome(top_k, new_table) ==
            [ top |-> top_k,
              ids |-> ids \cup { top_k[i].uri : i \in DOMAIN top_k },
              artists |-> artists \cup { PrimaryArtist(top_k[i]) : i \in DOMAIN top_k },
              table |-> new_table ]
        pick(gathered) ==
            outcome(first(ranked(v2_Unique(gathered.cands, {}, {}, ids, artists))),
                    gathered.table)
    IN pick(v2_Gather(g, tracks_by_genre(ds, Lower(g)), << >>, table))

\* one iteration of `for genre in PLAYABLE_GENRES` of v2.py
V2Select ==
    /\ script = "v2" /\ pos \in 1..Len(PLAYABLE_GENRES)
    /\ \E g \in {PLAYABLE_GENRES[pos]} :
       \E picked \in {v2_select(g, tracks, GENRE_RULES, global_seen_ids, global_seen_artists)} :
          /\ results' = Assign(results, g, picked.top)
          /\ global_seen_ids' = picked.ids
          /\ global_seen_artists' = picked.artists
          /\ GENRE_RULES' = picked.table
    /\ pos' = pos + 1
    /\ UNCHANGED <<evaluator, genre, track, done, verdict, script, featVars, tracks, noise, auxVars>>

\* ------------------------------------------------------------------------
\* Seed selection of test.py
\* ------------------------------------------------------------------------
\* score_track(track, rules, seed_year_hint) in hundredths; the rule records
\* of the model hold no popularity_center and no boost_artist_contains
score_track(t, rules, seed_year_hint) ==
    LET pop == test_NumberOf(t.popularity)
        y == test_NumberOf(t.release_year)
    IN (IF pop # NONE THEN 0 - 5 * Abs(pop - 60) ELSE 0)
       + (IF seed_year_hint # NONE /\ y # NONE THEN 0 - 2 * Abs(y - seed_year_hint) ELSE 0)
       + (IF contains_any(t.name, rules.deny_name_contains) THEN -100 ELSE 0)
       + (IF artist_in_whitelist(PrimaryArtist(t), rules.whitelist_artists) THEN 200 ELSE 0)

RECURSIVE test_TopK(_, _, _, _)
\* the pick of select_seeds_for_genre: one track per artist, up to K
test_TopK(scored, k, top_k, seen_artists) ==
    IF scored = << >> \/ Len(top_k) >= k THEN top_k
    ELSE IF PrimaryArtist(Head(scored)) \in seen_artists
         THEN test_TopK(Tail(scored), k, top_k, seen_artists)
         ELSE test_TopK(Tail(scored), k, Append(top_k, Head(scored)),
                        seen_artists \cup {PrimaryArtist(Head(scored))})

\* select_seeds_for_genre(genre, ...) with parent None and GLOBAL_UNIQUENESS
select_seeds_for_genre(g, ds, table, ids, artists) ==
    LET rules_for_genre == RulesGet(table, g)
        hint_of(years) == IF years = << >> THEN NONE ELSE years[(Len(years) \div 2) + 1]
        scored(candidates, hint) ==
            SortedDesc(candidates, [i \in DOMAIN candidates |->
                                       score_track(candidates[i], rules_for_genre, hint)])
        outcome(top_k) ==
            [ top |-> top_k,
              ids |-> ids \cup ({ top_k[i].uri : i \in DOMAIN top_k } \ {<< >>}),
              artists |-> artists \cup { PrimaryArtist(top_k[i]) : i \in DOMAIN top_k } ]
        pick(candidates) ==
            outcome(test_TopK(scored(candidates, hint_of(sorted(YearVals(candidates)))),
                              test_K, << >>, {}))
    IN pick(SelectSeq(tracks_by_genre(ds, g),
                LAMBDA t : /\ test_passes_rules(g, t, rules_for_genre)
                           /\ ~(t.uri # << >> /\ t.uri \in ids)
                           /\ ~(PrimaryArtist(t) # << >> /\ PrimaryArtist(t) \in artists)))

\* the GLOBAL_UNIQUENESS argument of build_seed_map: True by default and in
\* the script's own run, False where a call passes it so
GLOBAL_UNIQUENESS == call = << >> \/ call.GLOBAL_UNIQUENESS

\* one iteration of `for g in genres` of build_seed_map; without
\* GLOBAL_UNIQUENESS the run-wide sets are neither read nor written
TestSelect ==
    /\ script = "test" /\ pos \in 1..Len(PLAYABLE_GENRES)
    /\ \E g \in {PLAYABLE_GENRES[pos]} :
       \E picked \in {select_seeds_for_genre(g, tracks, GENRE_RULES,
                          IF GLOBAL_UNIQUENESS THEN global_seen_ids ELSE {},
                          IF GLOBAL_UNIQUENESS THEN global_seen_artists ELSE {})} :
          /\ results' = Assign(results, g, picked.top)
          /\ global_seen_ids' = IF GLOBAL_UNIQUENESS THEN picked.ids ELSE global_seen_ids
          /\ global_seen_artists' =
                IF GLOBAL_UNIQUENESS THEN picked.artists ELSE global_seen_artists
    /\ pos' = pos + 1
    /\ UNCHANGED <<ruleVars, script, featVars, tracks, noise, auxVars>>

\* ------------------------------------------------------------------------
\* Seed selection of extract_genre_seeds_patched_help.py
\* ------------------------------------------------------------------------
\* track_artist_name(t)
track_artist_name(t) == IF t.artists = << >> THEN S.Unknown ELSE t.artists[1]

\* the SHOEGAZE_WHITELIST_ARTISTS entries that name an artist of the model
SHOEGAZE_WHITELIST_ARTISTS ==
    { Lower(SHOEGAZE_WHITELIST[i]) : i \in {1, 2, 3, 4, 5, 6, 10, 11} }

\* is_shoegaze_candidate(t)
is_shoegaze_candidate(t) ==
    \/ \E i \in DOMAIN t.artist_genres : Lower(Strip(t.artist_genres[i])) = S.shoegaze
    \/ Lower(Strip(track_artist_name(t))) \in SHOEGAZE_WHITELIST_ARTISTS

\* genre_specific_filter(genre_key, tracks) for the genres of the model
genre_specific_filter(genre_key, pool) ==
    IF Lower(Strip(genre_key)) = S.shoegaze
    THEN LET or_all(base) == IF base # << >> THEN base ELSE pool
         IN or_all(SelectSeq(pool, is_shoegaze_candidate))
    ELSE pool

\* the score of choose_seeds_for_genre in units of 1/60
patched_score(genre_key, t) ==
    LET pop == IF t.popularity \in {NONE, BADVAL} THEN 0 ELSE t.popularity
        year == IF t.release_year \in {NONE, BADVAL} THEN 0 ELSE t.release_year
    IN (0 - Abs(pop - 60))
       + (IF Lower(Strip(genre_key)) = S.shoegaze /\ year >= 1989 /\ year <= 1996
          THEN 21 ELSE 0)

\* the de-duplication key: "<artist>::<title>", both normalized
DedupKey(t) == <<Lower(Strip(track_artist_name(t))), Lower(Strip(t.name))>>

RECURSIVE DedupFill(_, _, _)
\* append the tracks of the list whose key is new until the limit is reached
DedupFill(list, limit, dedup) ==
    IF list = << >> \/ Len(dedup) = limit THEN dedup
    ELSE IF \E i \in DOMAIN dedup : DedupKey(dedup[i]) = DedupKey(Head(list))
         THEN DedupFill(Tail(list), limit, dedup)
         ELSE DedupFill(Tail(list), limit, Append(dedup, Head(list)))

\* choose_seeds_for_genre(genre_key, pool, limit); no uri of the model is
\* in CURATION_EXCLUDE_URIS
choose_seeds_for_genre(genre_key, pool, limit) ==
    LET ranked(filtered) ==
            SortedDesc(filtered,
                [i \in DOMAIN filtered |-> patched_score(genre_key, filtered[i])])
        cand(filtered) ==
            SelectSeq(filtered,
                LAMBDA t : Lower(Strip(track_artist_name(t))) \in SHOEGAZE_WHITELIST_ARTISTS)
        backfill(filtered, dedup) ==
            IF Lower(Strip(genre_key)) = S.shoegaze /\ Len(dedup) < limit
            THEN DedupFill(cand(filtered), limit, dedup)
            ELSE dedup
        choose(filtered) == backfill(filtered, DedupFill(ranked(filtered), limit, << >>))
    IN choose(genre_specific_filter(genre_key, pool))

\* build_node for one genre node: the pool of the node is the bucket of its
\* seed key, and the chosen seeds become the node's seed list
PatchedChoose ==
    /\ script = "patched_help" /\ pos \in 1..Len(PLAYABLE_GENRES)
    /\ LET g == PLAYABLE_GENRES[pos]
           pool == tracks_by_genre(tracks, g)
       IN results' = Assign(results, g,
                        IF pool = << >> THEN << >>
                        ELSE choose_seeds_for_genre(g, pool, SEEDS_PER_GENRE_DEFAULT))
    /\ pos' = pos + 1
    /\ UNCHANGED <<ruleVars, script, featVars, tracks, noise,
                   global_seen_ids, global_seen_artists, auxVars>>

\* ------------------------------------------------------------------------
\* Seed selection: specification
\* ------------------------------------------------------------------------
\* the rule table a script starts with
StartRules(s) ==
    IF s = "killmegod" THEN killmegod_GENRE_RULES
    ELSE IF s \in {"v2", "test"} THEN v2_GENRE_RULES
    ELSE << >>

InitSelect ==
    /\ evaluator = "none" /\ genre = << >> /\ track = << >>
    /\ done = FALSE /\ verdict = FALSE
    /\ FeatIdle
    /\ script \in {"killmegod", "v2", "test", "patched_help"}
    /\ GENRE_RULES = StartRules(script)
    /\ tracks \in Datasets
    /\ noise \in (IF script \in {"killmegod", "v2"} THEN {"flat", "rising"} ELSE {"flat"})
    /\ pos = 1
    /\ results = << >>
    /\ global_seen_ids = {}
    /\ global_seen_artists = {}
    /\ AuxIdle

NextSelect ==
    \/ KillmegodSelectReal
    \/ KillmegodSelectSynthetic
    \/ V2Select
    \/ TestSelect
    \/ PatchedChoose

SpecSelect == InitSelect /\ [][NextSelect]_vars

\* the run has handled every genre and node of its work list
BatchDone ==
    IF script = "killmegod" THEN KillmegodDone ELSE pos > Len(PLAYABLE_GENRES)

\* ------------------------------------------------------------------------
\* Properties of seed selection
\* ------------------------------------------------------------------------
\* the tracks of a list, as a set
TrackSet(list) == { list[i] : i \in DOMAIN list }

\* two seeds that are the same track or name the same primary artist; a
\* track that names no artist has no primary artist
SameIdOrArtist(a, b) ==
    \/ a.uri = b.uri
    \/ PrimaryArtist(a) # << >> /\ PrimaryArtist(a) = PrimaryArtist(b)

\* C1: in a run with run-wide uniqueness (killmegod.py, v2.py, test.py with
\* GLOBAL_UNIQUENESS), no track id and no primary artist occurs in the seed
\* lists of two different genres
C1_UniqueAcrossGenres ==
    script \in {"killmegod", "v2", "test"} =>
        \A g1 \in DOMAIN results, g2 \in DOMAIN results :
            g1 # g2 =>
                \A a \in TrackSet(results[g1]), b \in TrackSet(results[g2]) :
                    ~SameIdOrArtist(a, b)

\* a finished run of killmegod.py in which a seed of rock kept a second
\* track of its artist out of a shoegaze list that still had room for it
C1_Witness ==
    /\ script = "killmegod" /\ BatchDone
    /\ Len(results[S.shoegaze]) < seeds_per_genre
    /\ \E a \in TrackSet(results[S.rock]), u \in TrackSet(tracks) :
          /\ u.uri # a.uri
          /\ ArtistKey(u) = ArtistKey(a)
          /\ genre_match(S.shoegaze, norm_tags(u.artist_genres))
          /\ passes_rules(S.shoegaze, u, GENRE_RULES)
          /\ u \notin TrackSet(results[S.shoegaze])

\* the seed count a script fills a genre to
SeedLimit(s) ==
    IF s = "killmegod" THEN seeds_per_genre
    ELSE IF s = "v2" THEN v2_top_k
    ELSE IF s = "test" THEN test_K
    ELSE SEEDS_PER_GENRE_DEFAULT

\* the artists of the filtered tracks that are still eligible when the
\* genre or node at position pos is handled: the track has an id, neither
\* its id nor its artist was selected before, and (outside the synthetic
\* pass) it names an artist.  One seed can be drawn per artist, so the size
\* of this set is the size of the de-duplicated pool
EligibleArtists ==
    IF script = "killmegod" /\ pos <= Len(PLAYABLE_GENRES)
    THEN { ArtistKey(t) :
             t \in { c \in TrackSet(Candidates(PLAYABLE_GENRES[pos], tracks, GENRE_RULES)) :
                       /\ ArtistKey(c) # << >>
                       /\ ~GloballySeen(c.uri, ArtistKey(c),
                                        global_seen_ids, global_seen_artists) } }
    ELSE IF script = "killmegod"
    THEN { ArtistKey(c.track) :
             c \in { x \in TrackSet(SyntheticCandidates(
                               synthetic_genres[pos - Len(PLAYABLE_GENRES)].child_seeds,
                               tracks, GENRE_RULES, global_seen_ids,
                               [sum |-> [f \in FEATURE_FIELDS |-> 0],
                                count |-> [f \in FEATURE_FIELDS |-> 0]])) :
                       ~GloballySeen(x.track.uri, ArtistKey(x.track),
                                     global_seen_ids, global_seen_artists) } }
    ELSE { PrimaryArtist(t) :
             t \in { c \in TrackSet(v2_Gather(PLAYABLE_GENRES[pos],
                                       tracks_by_genre(tracks, PLAYABLE_GENRES[pos]),
                                       << >>, GENRE_RULES).cands) :
                       /\ c.uri # << >> /\ PrimaryArtist(c) # << >>
                       /\ ~GloballySeen(c.uri, PrimaryArtist(c),
                                        global_seen_ids, global_seen_artists) } }

\* the seed list written by the step from the current state
WrittenSeeds == results'[CHOOSE g \in DOMAIN results' : g \notin DOMAIN results]

\* the step writes at most K seeds, and exactly K when at least K artists
\* were eligible
SeedCountStep ==
    script \in {"killmegod", "v2"} =>
        /\ Len(WrittenSeeds) <= SeedLimit(script)
        /\ (Cardinality(EligibleArtists) >= SeedLimit(script)
               => Len(WrittenSeeds) = SeedLimit(script))

\* C2: the seed set written for a genre (killmegod.py, real and synthetic
\* pass, and v2.py) holds at most K tracks, and exactly K when the
\* de-duplicated, filtered pool holds at least K eligible tracks
C2_SeedCountBoundedAndFullWhenPoolAllows == [][SeedCountStep]_vars

\* C3: no two tracks of a seed set share a track id or a primary artist
C3_NoDuplicateWithinSeedSet ==
    \A g \in DOMAIN results :
        \A i \in DOMAIN results[g], j \in DOMAIN results[g] :
            i # j => ~SameIdOrArtist(results[g][i], results[g][j])

\* ------------------------------------------------------------------------
\* Derived file names (killmegod.py)
\* ------------------------------------------------------------------------
\* strip_features(text): re.sub of the pattern
\*   \s*\(?(?:feat\.?|ft\.?|featuring|with)\s+[^)]+?\)?
\* by the empty string, leftmost matches from left to right, then strip()
strip_features(text) ==
    LET RECURSIVE SkipSpace(_)
        \* the first position at or after i that holds no whitespace
        SkipSpace(i) ==
            IF i <= Len(text) /\ IsSpace(text[i]) THEN SkipSpace(i + 1) ELSE i
        \* the word stands at position i, in any letter case
        HasAt(i, word) ==
            /\ i + Len(word) - 1 <= Len(text)
            /\ Lower(SubSeq(text, i, i + Len(word) - 1)) = word
        \* the positions right after a marker at i, in the order tried
        dotted(i, word) ==
            IF ~HasAt(i, word) THEN << >>
            ELSE IF HasAt(i + Len(word), <<".">>)
                 THEN <<i + Len(word) + 1, i + Len(word)>>
                 ELSE <<i + Len(word)>>
        plain(i, word) == IF HasAt(i, word) THEN <<i + Len(word)>> ELSE << >>
        MarkerEnds(i) ==
            dotted(i, S.feat) \o dotted(i, S.ft) \o plain(i, S.featuring) \o plain(i, S.with)
        \* \s+[^)]+?\)? from m, the whitespace ending before e: the position
        \* right after the match, 0 if it fails.  The lazy [^)]+? takes one
        \* character; when the whitespace runs up to a ")" or to the end,
        \* \s+ gives its last character back to it
        tail(m, e) ==
            IF e = m THEN 0
            ELSE IF e <= Len(text) /\ text[e] # ")"
                 THEN (IF e + 1 <= Len(text) /\ text[e + 1] = ")" THEN e + 2 ELSE e + 1)
            ELSE IF e - m >= 2
                 THEN (IF e <= Len(text) THEN e + 1 ELSE e)
            ELSE 0
        paren(a) == IF a <= Len(text) /\ text[a] = "(" THEN a + 1 ELSE a
        ends(ms) == SelectSeq([k \in DOMAIN ms |-> tail(ms[k], SkipSpace(ms[k]))],
                              LAMBDA e : e # 0)
        first(es) == IF es = << >> THEN 0 ELSE es[1]
        \* the pattern matched at position i: the position after the match, or 0
        MatchEnd(i) == first(ends(MarkerEnds(paren(SkipSpace(i)))))
        RECURSIVE Sub(_)
        cut(i, e) == IF e # 0 THEN Sub(e) ELSE <<text[i]>> \o Sub(i + 1)
        Sub(i) == IF i > Len(text) THEN << >> ELSE cut(i, MatchEnd(i))
    IN IF text = << >> THEN << >> ELSE Strip(Sub(1))

\* generate_filename(artist, track_name), with the two slugs it is made of
generate_filename(artist, track_name) ==
    LET \* the characters [a-z0-9-] keeps
        keep == { LOWERCASE[c] : c \in DOMAIN LOWERCASE }
                    \cup {"0", "1", "2", "3", "4", "5", "6", "7", "8", "9", "-"}
        RECURSIVE CollapseHyphens(_)
        \* re.sub(r'-+', '-', s)
        CollapseHyphens(s) ==
            IF Len(s) < 2 THEN s
            ELSE IF s[1] = "-" /\ s[2] = "-" THEN CollapseHyphens(Tail(s))
            ELSE <<s[1]>> \o CollapseHyphens(Tail(s))
        RECURSIVE StripHyphens(_)
        \* s.strip('-')
        StripHyphens(s) ==
            IF s # << >> /\ s[1] = "-" THEN StripHyphens(Tail(s))
            ELSE IF s # << >> /\ s[Len(s)] = "-" THEN StripHyphens(SubSeq(s, 1, Len(s) - 1))
            ELSE s
        hyphened(l) == [i \in DOMAIN l |-> IF l[i] = " " THEN "-" ELSE l[i]]
        kept(h) == SelectSeq(h, LAMBDA c : c \in keep)
        safe(text) ==
            StripHyphens(CollapseHyphens(kept(hyphened(
                Lower(IF text = << >> THEN S.unknown ELSE text)))))
        made(a, n) == [ safe_artist |-> a, safe_name |-> n,
                        filename |-> a \o <<"-">> \o n \o S.dot_json ]
    IN made(safe(strip_features(artist)), safe(strip_features(track_name)))

\* ------------------------------------------------------------------------
\* Manifest building (killmegod.py build_manifest, patched_help build_node)
\* A taxonomy node is a record [kind, _seeds, _alias, subgenres]: kind is
\* "dict" for a JSON object and "other" for any other JSON value; _seeds and
\* _alias are << >> where the key is absent or no string; subgenres is
\* [kind |-> "dict", items |-> <<[name, node], ...>>] in key order, or a
\* record of another kind where the key is absent or holds no object.
\* A built node is a function on the keys it carries.
\* ------------------------------------------------------------------------
\* the children of a node that build_manifest and build_node descend into:
\* the entries of an object-valued "subgenres" that are objects themselves
DictChildren(tree) ==
    IF tree.subgenres.kind = "dict"
    THEN SelectSeq(tree.subgenres.items, LAMBDA c : c.node.kind = "dict")
    ELSE << >>

RECURSIVE SeqChoices(_)
\* every way of taking one element from each set of a sequence of sets
SeqChoices(sets) ==
    IF sets = << >> THEN { << >> }
    ELSE { <<h>> \o t : h \in Head(sets), t \in SeqChoices(Tail(sets)) }

\* the keys of an emitted features object: FEATURE_FIELDS, tempo_bpm, tempo_norm
FEATURE_KEYS == FEATURE_FIELDS \cup {"tempo_bpm", "tempo_norm"}

\* aggregate_features_from_children with a child that lacks a value counted
\* as zero instead of skipped
aggregate_features_nulls_as_zero(children) ==
    LET feat_of(c) == IF "features" \in DOMAIN c THEN c["features"] ELSE << >>
        vals(k) == [i \in DOMAIN children |->
                      IF k \in DOMAIN feat_of(children[i].node)
                         /\ feat_of(children[i].node)[k] # NONE
                      THEN feat_of(children[i].node)[k] ELSE 0]
        held == SelectSeq(children, LAMBDA c : "median_year" \in DOMAIN c.node)
        years == SelectSeq([i \in DOMAIN held |-> held[i].node["median_year"]],
                           LAMBDA v : v # NONE)
        out(vs) == IF vs = << >> THEN {NONE} ELSE sround(median(vs))
        year(ys) == IF ys = << >> THEN NONE ELSE median_sorted(sorted(ys)) \div 2
    IN { [ feat |-> [f \in FEATURE_FIELDS |-> IF f = "danceability" THEN d ELSE p],
           med_year |-> year(years) ] :
         d \in out(vals("danceability")), p \in out(vals("popularity")) }

\* aggregate_features_from_children(children_nodes): the (out_feat, med_year)
\* pairs it may return; a key without values is NONE here
aggregate_features_from_children(children) ==
    LET \* child.get("features") or {}
        feat_of(c) == IF "features" \in DOMAIN c THEN c["features"] ELSE << >>
        \* the non-null values the children's feature objects hold under key k
        having(k) == SelectSeq(children, LAMBDA c : k \in DOMAIN feat_of(c.node))
        listed(k, hs) == [i \in DOMAIN hs |-> feat_of(hs[i].node)[k]]
        vals(k) == SelectSeq(listed(k, having(k)), LAMBDA v : v # NONE)
        \* the children's median years that are present and not null
        held == SelectSeq(children, LAMBDA c : "median_year" \in DOMAIN c.node)
        years == SelectSeq([i \in DOMAIN held |-> held[i].node["median_year"]],
                           LAMBDA v : v # NONE)
        out(vs) == IF vs = << >> THEN {NONE} ELSE sround(median(vs))
        year(ys) == IF ys = << >> THEN NONE ELSE median_sorted(sorted(ys)) \div 2
    IN { [ feat |-> [f \in FEATURE_FIELDS |-> IF f = "danceability" THEN d ELSE p],
           med_year |-> year(years) ] :
         d \in out(vals("danceability")), p \in out(vals("popularity")) }

\* the key under which build_manifest looks up the seeds of the node at the
\* given path (a sequence of names, written joined by "/"):
\* synthetic_path_to_name.get(genre_path, genre_path) for a synthetic node,
\* where gather_synthetic_genres maps the path of a __synthetic__ node with
\* a directly seeded child to the node's name
lookup_key(tree, path) ==
    LET RECURSIVE JoinPath(_)
        JoinPath(p) == IF Len(p) = 1 THEN p[1]
                       ELSE p[1] \o <<"/">> \o JoinPath(Tail(p))
        kids == DictChildren(tree)
        listed == \E i \in DOMAIN kids :
                      /\ kids[i].node._seeds # << >>
                      /\ kids[i].node._seeds # S.__synthetic__
    IN IF tree._seeds # S.__synthetic__ THEN tree._seeds
       ELSE IF listed THEN path[Len(path)]
       ELSE JoinPath(path)

RECURSIVE build_manifest(_, _, _)
\* build_manifest(tree, genre_path): the nodes it may return, given results
build_manifest(tree, path, res) ==
    LET items == DictChildren(tree)
        seeds(key) == IF tree._seeds # << >> /\ key \in DOMAIN res THEN res[key] ELSE << >>
        artist_name(t) == IF t.artists = << >> THEN S.Unknown ELSE t.artists[1]
        \* one entry of seeds_payload
        payload(t) ==
            [ uri |-> t.uri, name |-> t.name, artist |-> artist_name(t),
              popularity |-> IF t.popularity = NONE THEN 0 ELSE t.popularity,
              filename |-> generate_filename(artist_name(t), t.name).filename ]
        truthy(f) == \E k \in DOMAIN f : f[k] # NONE
        \* the result dictionary, from the locals of the last lines
        result(seeds_payload, node_features, node_median_year, built_sub) ==
            (IF seeds_payload # << >> THEN "seeds" :> seeds_payload ELSE << >>)
            @@ (IF truthy(node_features)
                THEN "features" :> [k \in FEATURE_KEYS |->
                         IF k \in DOMAIN node_features THEN node_features[k] ELSE NONE]
                ELSE << >>)
            @@ (IF node_median_year # NONE THEN "median_year" :> node_median_year
                ELSE << >>)
            @@ (IF built_sub # << >> THEN "subgenres" :> built_sub ELSE << >>)
        node(seeds_payload, direct, agg, built_sub) ==
            IF ~truthy(direct.feat) /\ built_sub # << >>
            THEN result(seeds_payload,
                     IF truthy(agg.feat) THEN agg.feat ELSE direct.feat,
                     IF agg.med_year # NONE THEN agg.med_year ELSE direct.med_year,
                     built_sub)
            ELSE result(seeds_payload, direct.feat, direct.med_year, built_sub)
        with_seeds(sd, built_sub) ==
            { node([i \in DOMAIN sd |-> payload(sd[i])], direct, agg, built_sub) :
                direct \in compute_features_from_tracks("killmegod", sd),
                agg \in aggregate_features_from_children(built_sub) }
        with_sub(picks) ==
            UNION { with_seeds(seeds(lookup_key(tree, path)),
                               [i \in DOMAIN items |->
                                   [name |-> items[i].name, node |-> pick[i]]]) :
                    pick \in picks }
    IN with_sub(SeqChoices([i \in DOMAIN items |->
                    build_manifest(items[i].node, path \o <<items[i].name>>, res)]))

\* the loop over GENRE_TREE.items(): the manifests the run may build, as
\* sequences of [name, node] in key order
build_manifest_all(tree_items, res) ==
    LET tops == SelectSeq(tree_items, LAMBDA c : c.node.kind = "dict")
    IN { [i \in DOMAIN tops |-> [name |-> tops[i].name, node |-> pick[i]]] :
         pick \in SeqChoices([i \in DOMAIN tops |->
                     build_manifest(tops[i].node, <<tops[i].name>>, res)]) }

\* resolve_seed_pool(node, results) of patched_help
resolve_seed_pool(node, res) ==
    LET get(key) == IF key # << >> /\ key \in DOMAIN res THEN res[key] ELSE << >>
    IN IF get(node._seeds) # << >> THEN get(node._seeds) ELSE get(node._alias)

RECURSIVE build_node(_, _, _)
\* build_node(name, node, results, sample_size_per_genre) of patched_help: the
\* nodes it may return
build_node(name, tree, res) ==
    LET items == DictChildren(tree)
        all_none(f) == \A k \in DOMAIN f : f[k] = NONE
        \* safe_float and safe_int turn a value that does not parse into null
        safe(v) == IF v = BADVAL THEN NONE ELSE v
        \* one entry of seeds_payload
        payload(t) ==
            [ uri |-> t.uri, name |-> t.name, artist |-> track_artist_name(t),
              popularity |-> safe(t.popularity), release_year |-> safe(t.release_year) ]
        \* the node dictionary, from the locals of the last lines
        PatchedNode(seeds_payload, features, median_year, sub_out) ==
            ("features" :> [k \in FEATURE_KEYS |->
                                IF k \in DOMAIN features THEN features[k] ELSE NONE])
            @@ ("median_year" :> median_year)
            @@ (IF seeds_payload # << >> THEN "seeds" :> seeds_payload ELSE << >>)
            @@ (IF sub_out # << >> THEN "subgenres" :> sub_out ELSE << >>)
        node(seeds_payload, direct, agg, sub_out) ==
            IF all_none(direct.feat) /\ sub_out # << >>
            THEN PatchedNode(seeds_payload, agg.feat,
                     IF agg.med_year # NONE THEN agg.med_year ELSE direct.med_year,
                     sub_out)
            ELSE PatchedNode(seeds_payload, direct.feat, direct.med_year, sub_out)
        with_seeds(chosen, sub_out) ==
            { node([i \in DOMAIN chosen |-> payload(chosen[i])],
                   direct, agg, sub_out) :
                direct \in compute_features_from_tracks("patched_help", chosen),
                agg \in aggregate_features_from_children(sub_out) }
        with_pool(pool, sub_out) ==
            with_seeds(IF pool = << >> THEN << >>
                       ELSE choose_seeds_for_genre(name, pool, SEEDS_PER_GENRE_DEFAULT),
                       sub_out)
        with_sub(picks) ==
            UNION { with_pool(resolve_seed_pool(tree, res),
                              [i \in DOMAIN items |->
                                  [name |-> items[i].name, node |-> pick[i]]]) :
                    pick \in picks }
    IN with_sub(SeqChoices([i \in DOMAIN items |->
                    build_node(items[i].name, items[i].node, res)]))

\* the loop over root.items() in buildManifestTree: the trees it may build
build_node_all(tree_items, res) ==
    LET tops == SelectSeq(tree_items, LAMBDA c : c.node.kind = "dict")
    IN { [i \in DOMAIN tops |-> [name |-> tops[i].name, node |-> pick[i]]] :
         pick \in SeqChoices([i \in DOMAIN tops |->
                     build_node(tops[i].name, tops[i].node, res)]) }

\* ------------------------------------------------------------------------
\* Manifest building: inputs and state machine
\* ------------------------------------------------------------------------
\* the same part with the third child that "Modern" has in GENRE_TREE
WideTree ==
    << [ name |-> S.rock,
         node |-> TreeNode(S.rock, << >>,
            << [ name |-> S.Modern,
                 node |-> TreeNode(S.__synthetic__, << >>,
                    << [name |-> S.alternative_rock,
                        node |-> TreeNode(S.alternative_rock, << >>, << >>)],
                       [name |-> S.indie_rock,
                        node |-> TreeNode(S.indie_rock, << >>, << >>)],
                       [name |-> S.shoegaze,
                        node |-> TreeNode(S.shoegaze, << >>, << >>)] >>) ] >>) ] >>

\* the seed maps of the manifest runs: a leaf holds no seeds, seeds with
\* values, or seeds with some or all values missing or unparseable; an inner
\* node holds no seeds, seeds without feature values, or seeds with values
ManResults ==
    LET ft(uri) == CHOOSE t \in FeatTracks : t.uri = uri
        lists == { << >>, <<ft(<<"1">>)>>, <<ft(<<"2">>)>>,
                   <<ft(<<"3">>), ft(<<"6">>)>>, <<ft(<<"5">>)>> }
    IN { [ g \in {S.rock, S.Modern, S.alternative_rock, S.indie_rock, S.shoegaze} |->
             IF g = S.rock THEN r
             ELSE IF g = S.Modern THEN m
             ELSE IF g = S.alternative_rock THEN a
             ELSE IF g = S.indie_rock THEN i ELSE s ] :
           r \in { << >>, <<ft(<<"5">>)>> },
           m \in { << >>, <<ft(<<"5">>)>>, <<ft(<<"1">>)>> },
           a \in lists, i \in lists, s \in lists }

InitManifest ==
    /\ RulesIdle
    /\ FeatIdle
    /\ script \in {"killmegod", "patched_help"}
    /\ tracks = << >> /\ noise = "flat" /\ pos = 0
    /\ global_seen_ids = {} /\ global_seen_artists = {}
    /\ results \in ManResults
    /\ GENRE_TREE \in {RockTree, WideTree}
    /\ manifest = << >>
    /\ manDone = FALSE
    /\ call = << >> /\ ret = << >>
    /\ RunIdle

\* killmegod.py: the manifest is built over GENRE_TREE from results
BuildManifestKillmegod ==
    /\ script = "killmegod" /\ ~manDone
    /\ manifest' \in build_manifest_all(GENRE_TREE, results)
    /\ manDone' = TRUE
    /\ UNCHANGED <<ruleVars, script, featVars, selVars, GENRE_TREE, funVars, runVars>>

\* patched_help: buildManifestTree builds the nodes of the tree
BuildManifestPatched ==
    /\ script = "patched_help" /\ ~manDone
    /\ manifest' \in build_node_all(GENRE_TREE, results)
    /\ manDone' = TRUE
    /\ UNCHANGED <<ruleVars, script, featVars, selVars, GENRE_TREE, funVars, runVars>>

NextManifest == BuildManifestKillmegod \/ BuildManifestPatched

SpecManifest == InitManifest /\ [][NextManifest]_vars

\* ------------------------------------------------------------------------
\* Properties of the built manifest
\* ------------------------------------------------------------------------
RECURSIVE NodePairs(_, _, _)
\* every taxonomy node that was built, with its path and its built node
NodePairs(items, built, prefix) ==
    LET tops == SelectSeq(items, LAMBDA c : c.node.kind = "dict")
        kids(out) == IF "subgenres" \in DOMAIN out THEN out["subgenres"] ELSE << >>
    IN UNION { { [ src |-> tops[i].node, path |-> prefix \o <<tops[i].name>>,
                   out |-> built[i].node ] }
               \cup NodePairs(DictChildren(tops[i].node), kids(built[i].node),
                              prefix \o <<tops[i].name>>) :
               i \in DOMAIN built }

\* the built nodes of the manifest
BuiltNodes == NodePairs(GENRE_TREE, manifest, << >>)

\* the seed list or pool that results holds for a node
NodeSeeds(p) ==
    IF script = "killmegod"
    THEN (IF p.src._seeds # << >> /\ lookup_key(p.src, p.path) \in DOMAIN results
          THEN results[lookup_key(p.src, p.path)] ELSE << >>)
    ELSE resolve_seed_pool(p.src, results)

\* the node has no feature summary of its own: no seed of it holds a value
\* of any feature field
NoDirectSummary(p) ==
    \A i \in DOMAIN NodeSeeds(p) : \A f \in FEATURE_FIELDS :
        NodeSeeds(p)[i][f] \in {NONE, BADVAL}

\* the values that the built children of a node hold under key k of their
\* features (key "median_year": of the node itself), nulls and absent keys skipped
KidVals(p, k) ==
    LET kids == p.out["subgenres"]
        val(c) == IF k = "median_year"
                  THEN (IF k \in DOMAIN c THEN c[k] ELSE NONE)
                  ELSE (IF "features" \in DOMAIN c THEN c["features"][k] ELSE NONE)
    IN SelectSeq([i \in DOMAIN kids |-> val(kids[i].node)], LAMBDA v : v # NONE)

\* twice the median of a non-empty list: the sum of its two middle order
\* statistics (which coincide for an odd count)
MedianTwice(vals) ==
    LET s == sorted(vals)
        n == Len(s)
    IN s[(n + 1) \div 2] + s[(n + 2) \div 2]

\* v is the median of vals to the two decimals a features object carries
IsMedianTo2Decimals(v, vals) ==
    v # NONE /\ 2 * v - MedianTwice(vals) \in {-1, 0, 1}

\* y is the median of vals as the whole year a node carries
IsMedianYear(y, vals) ==
    y # NONE /\ MedianTwice(vals) - 2 * y \in {0, 1}

\* the built nodes without a feature summary of their own that have built children
AggregatedNodes ==
    { p \in BuiltNodes : "subgenres" \in DOMAIN p.out /\ NoDirectSummary(p) }

GenreMatchCalls ==
    LET tags == { S.punk, S.post_punk, S.Punk_Rock, S.spunk, S.pop_punk, S.EDM_punk,
                  S.rock, S.rock_padded, S.Pop_Rock_tag, S.shoegaze }
    IN { [ fn |-> "genre_match", search_genre |-> g, track_genres |-> l ] :
           g \in {S.punk, S.rock, S.shoegaze},
           l \in { << >> } \cup { <<a>> : a \in tags } \cup { <<a, b>> : a \in tags, b \in tags } }

\* the calls of generate_filename: an artist and a title, each plain or
\* followed by a credit annotation under one of the four markers
FilenameCalls ==
    LET credits == { << >>, S.credit_feat, S.credit_ft, S.credit_featuring, S.credit_with }
    IN { [ fn |-> "generate_filename",
           artist_plain |-> a, artist |-> a \o ca,
           name_plain |-> n, track_name |-> n \o cn ] :
           a \in {S.Beyonce, S.Jay_Z, S.Slowdive},
           n \in {S.Crazy_In_Love, S.Track_9, S.Leave},
           ca \in credits, cn \in credits }

\* ------------------------------------------------------------------------
\* Helper functions: quantiles and text normalizers
\* ------------------------------------------------------------------------
\* Mutant: the interpolation index is n*q
linear_quantile_index_n(vals, q) ==
    LET n == Len(vals)
        at(xs, h) ==
            IF (h \div 100) + 1 < n
            THEN xs[(h \div 100) + 1] * (100 - (h % 100)) + xs[(h \div 100) + 2] * (h % 100)
            ELSE 100 * xs[n]
    IN IF n = 0 THEN NONE
       ELSE IF n = 1 THEN 100 * vals[1]
       ELSE at(sorted(vals), n * q)

\* linear_quantile(vals, q) of killmegod.py (v2.py 72-85 is the same text),
\* with q and the result in hundredths; xs[i] of the code is xs[i + 1] here
linear_quantile(vals, q) ==
    LET n == Len(vals)
        at(xs, h) ==
            IF (h \div 100) + 1 < n
            THEN xs[(h \div 100) + 1] * (100 - (h % 100)) + xs[(h \div 100) + 2] * (h % 100)
            ELSE 100 * xs[n]
    IN IF n = 0 THEN NONE
       ELSE IF n = 1 THEN 100 * vals[1]
       ELSE at(sorted(vals), (n - 1) * q)

\* canon(g) of killmegod.py: lower().strip(), then every run of "-", "_"
\* and "/" becomes one blank, then every run of whitespace becomes one blank
canon(g) ==
    LET RECURSIVE separators(_)
        separators(s) ==
            IF s = << >> THEN << >>
            ELSE IF Head(s) \in {"-", "_", "/"}
                 THEN IF Len(s) > 1 /\ s[2] \in {"-", "_", "/"}
                      THEN separators(Tail(s))
                      ELSE <<" ">> \o separators(Tail(s))
                 ELSE <<Head(s)>> \o separators(Tail(s))
    IN IF g = << >> THEN << >> ELSE CollapseWS(separators(Strip(Lower(g))))

\* one application of the normalizer a call names; norm_tags takes a list
Normalize(fn, x) ==
    IF fn = "norm_text" THEN norm_text(x)
    ELSE IF fn = "norm_tags" THEN norm_tags(x)
    ELSE canon(x)

\* the longest value list handed to linear_quantile
MaxQuantileVals == 4

\* the calls of linear_quantile: up to four values, q from 0 to 1
QuantileCalls ==
    { [ fn |-> "linear_quantile", vals |-> v, q |-> q ] :
        v \in UNION { [1..n -> {10, 20, 30, 40}] : n \in 0..MaxQuantileVals },
        q \in {0, 10, 50, 90, 100} }

\* the calls of the normalizers: tags and titles with capitals, padding,
\* doubled blanks and separators
NormalizerCalls ==
    LET texts == { << >>, S.rock, S.Pop_Rock_tag, S.rock_padded, S.Track_9, S.two_blanks,
                   S.post_punk, S.Post_Punk, S.rock_dash, S.hip_hop_slash, S.Beyonce }
    IN { [ fn |-> f, text |-> x ] : f \in {"norm_text", "canon"}, x \in texts }
       \cup { [ fn |-> "norm_tags", text |-> l ] :
                l \in { << >> } \cup { <<a>> : a \in texts }
                        \cup { <<a, b>> : a \in texts, b \in texts } }

\* GENRE_TREE, a dict from top-level genre names to nodes, read as a node by
\* node.get: no top-level name is "_seeds" or "subgenres", so both keys are
\* absent
TaxonomyAsNode(tree_items) ==
    [ kind |-> "dict", _seeds |-> << >>, _alias |-> << >>,
      subgenres |-> [kind |-> "absent"] ]

\* build_parent_maps(tree): walk(tree) from the node it is given.  The
\* assignments genre_to_parent[child_seed] = parent_label are listed in the
\* order the walk makes them and a later one replaces an earlier one;
\* parent_to_desc holds a set for every non-empty label of a node with
\* subgenres
build_parent_maps(tree) ==
    LET seed_of(node) ==
            IF node._seeds # << >> /\ Strip(node._seeds) # << >> THEN node._seeds ELSE << >>
        label(node, parent_seed) ==
            IF seed_of(node) # << >> THEN seed_of(node) ELSE parent_seed
        RECURSIVE walk(_, _)
        walk(node, parent_seed) ==
            IF node.subgenres.kind # "dict" THEN [ pairs |-> << >>, labels |-> {} ]
            ELSE LET kids == SelectSeq(node.subgenres.items, LAMBDA c : c.node.kind = "dict")
                     below == [i \in DOMAIN kids |->
                                  walk(kids[i].node, label(node, parent_seed))]
                 IN [ pairs |->
                        Flatten([i \in DOMAIN kids |->
                            (IF seed_of(kids[i].node) # << >>
                             THEN << [k |-> seed_of(kids[i].node),
                                      v |-> label(node, parent_seed)] >>
                             ELSE << >>) \o below[i].pairs]),
                      labels |-> ({label(node, parent_seed)} \ {<< >>})
                                 \cup UNION { below[i].labels : i \in DOMAIN kids } ]
        maps(w) ==
            [ genre_to_parent |->
                [ g \in { w.pairs[i].k : i \in DOMAIN w.pairs } |->
                    LET last == CHOOSE i \in DOMAIN w.pairs :
                                   /\ w.pairs[i].k = g
                                   /\ \A j \in DOMAIN w.pairs : w.pairs[j].k = g => j <= i
                    IN w.pairs[last].v ],
              parent_to_desc |->
                [ l \in w.labels |->
                    { w.pairs[i].k : i \in { j \in DOMAIN w.pairs : w.pairs[j].v = l } } ] ]
    IN maps(walk(tree, << >>))

\* the calls of build_parent_maps: on the taxonomy, as the scripts call it,
\* and on a single top-level node
ParentMapCalls ==
    { [ fn |-> "build_parent_maps", tree |-> t, on |-> o ] :
        t \in {RockTree, WideTree}, o \in {"taxonomy", "node"} }

\* the datasets of the loading runs: one to three tracks out of a plain
\* one, one whose title carries a credit, one whose artist carries a credit
\* and one whose title and artist hold the letters "ft" inside a word
LoadCalls ==
    LET pool == { MkTrack(<<"l", "1">>, S.Alison, <<S.Slowdive>>, <<S.shoegaze>>, 1991, 50, NONE),
                  MkTrack(<<"l", "2">>, S.Crazy_In_Love \o S.credit_feat, <<S.Beyonce>>,
                          <<S.dance_pop>>, 2003, 80, NONE),
                  MkTrack(<<"l", "3">>, S.Leave, <<S.Beyonce \o S.credit_with, S.Jay_Z>>,
                          <<S.dance_pop>>, 2003, 70, NONE),
                  MkTrack(<<"l", "4">>, S.Drift_Away, <<S.Daft_Punk>>,
                          <<S.dance_pop>>, 2001, 60, NONE) }
    IN { [ fn |-> "load", dataset |-> d ] :
           d \in UNION { [1..n -> pool] : n \in 1..3 } }

HelperCalls ==
    GenreMatchCalls \cup FilenameCalls \cup QuantileCalls \cup NormalizerCalls
    \cup ParentMapCalls \cup LoadCalls

InitHelpers ==
    /\ RulesIdle
    /\ script = "none"
    /\ FeatIdle
    /\ SelIdle
    /\ GENRE_TREE = << >> /\ manifest = << >> /\ manDone = FALSE
    /\ RunIdle
    /\ call \in HelperCalls
    /\ ret = << >>

\* killmegod.py: genre_match(search_genre, track_genres)
CallGenreMatch ==
    /\ call.fn = "genre_match" /\ ret = << >>
    /\ ret' = <<genre_match(call.search_genre, call.track_genres)>>
    /\ UNCHANGED <<ruleVars, script, featVars, selVars, manVars, runVars, call>>

\* killmegod.py: generate_filename(artist, track_name)
CallGenerateFilename ==
    /\ call.fn = "generate_filename" /\ ret = << >>
    /\ ret' = <<generate_filename(call.artist, call.track_name)>>
    /\ UNCHANGED <<ruleVars, script, featVars, selVars, manVars, runVars, call>>

\* killmegod.py, v2.py: linear_quantile(vals, q)
CallLinearQuantile ==
    /\ call.fn = "linear_quantile" /\ ret = << >>
    /\ ret' = <<linear_quantile(call.vals, call.q)>>
    /\ UNCHANGED <<ruleVars, script, featVars, selVars, manVars, runVars, call>>

\* norm_text, norm_tags or canon applied to the argument, then once more to
\* what it returned: ret holds both results
CallNormalizer ==
    /\ call.fn \in {"norm_text", "norm_tags", "canon"} /\ Len(ret) < 2
    /\ ret' = Append(ret, Normalize(call.fn, IF ret = << >> THEN call.text ELSE ret[1]))
    /\ UNCHANGED <<ruleVars, script, featVars, selVars, manVars, runVars, call>>

\* killmegod.py, v2.py: GENRE_TO_PARENT, PARENT_TO_DESC = build_parent_maps(GENRE_TREE),
\* and the same function given one top-level node
CallBuildParentMaps ==
    /\ call.fn = "build_parent_maps" /\ ret = << >>
    /\ ret' = <<build_parent_maps(IF call.on = "taxonomy" THEN TaxonomyAsNode(call.tree)
                                  ELSE call.tree[1].node)>>
    /\ UNCHANGED <<ruleVars, script, featVars, selVars, manVars, runVars, call>>

\* killmegod.py: tracks = json.load(f).  tracks holds the loaded records,
\* pos the index of the next one the cleaning loop visits, ret the indices of
\* the records appended to cleaned_tracks (the list holds the records
\* themselves, not copies)
LoadDataset ==
    /\ call.fn = "load" /\ tracks = << >>
    /\ tracks' = call.dataset
    /\ pos' = 1
    /\ UNCHANGED <<ruleVars, script, featVars, noise, results, global_seen_ids,
                   global_seen_artists, manVars, runVars, funVars>>

\* killmegod.py: one iteration of `for t in tracks`: a title holding one of
\* the words feat, ft, featuring, with is skipped; otherwise t["name"] and
\* t["artists"] are assigned the stripped texts and t is appended
CleanTrack ==
    LET t == tracks[pos]
        words == {S.feat, S.ft, S.featuring, S.with}
        \* re.search(r'\b(feat\.?|ft\.?|featuring|with)\b', name, re.IGNORECASE)
        word_at(name, i, w) ==
            /\ i + Len(w) - 1 <= Len(name)
            /\ Lower(SubSeq(name, i, i + Len(w) - 1)) = w
            /\ (i = 1 \/ ~IsWordChar(name[i - 1]))
            /\ (i + Len(w) > Len(name) \/ ~IsWordChar(name[i + Len(w)]))
        has_marker(name) == \E i \in DOMAIN name, w \in words : word_at(name, i, w)
    IN /\ call.fn = "load" /\ pos \in DOMAIN tracks /\ Len(tracks) = Len(call.dataset)
       /\ IF has_marker(t.name)
          THEN UNCHANGED <<tracks, ret>>
          ELSE /\ tracks' = [tracks EXCEPT ![pos] =
                                [t EXCEPT !.name = strip_features(t.name),
                                          !.artists = [k \in DOMAIN t.artists |->
                                                          strip_features(t.artists[k])]]]
               /\ ret' = Append(ret, pos)
       /\ pos' = pos + 1
       /\ UNCHANGED <<ruleVars, script, featVars, noise, results, global_seen_ids,
                      global_seen_artists, manVars, runVars, call>>

\* killmegod.py: tracks = cleaned_tracks
RebindTracks ==
    /\ call.fn = "load" /\ tracks # << >> /\ pos = Len(call.dataset) + 1
    /\ tracks' = [k \in DOMAIN ret |-> tracks[ret[k]]]
    /\ pos' = pos + 1
    /\ UNCHANGED <<ruleVars, script, featVars, noise, results, global_seen_ids,
                   global_seen_artists, manVars, runVars, funVars>>

NextHelpers ==
    \/ CallGenreMatch
    \/ CallGenerateFilename
    \/ CallLinearQuantile
    \/ CallNormalizer
    \/ CallBuildParentMaps
    \/ LoadDataset
    \/ CleanTrack
    \/ RebindTracks

SpecHelpers == InitHelpers /\ [][NextHelpers]_vars

\* ------------------------------------------------------------------------
\* Properties of the helper functions
\* ------------------------------------------------------------------------
\* genre_match has returned for the call
GenreMatchReturned == call # << >> /\ call.fn = "genre_match" /\ ret # << >>

\* the word occurs in the text with no letter or digit right before or after it
OnWordBoundaries(word, text) ==
    \E i \in 1..(Len(text) - Len(word) + 1) :
        /\ SubSeq(text, i, i + Len(word) - 1) = word
        /\ (i = 1 \/ ~IsWordChar(text[i - 1]))
        /\ (i + Len(word) - 1 = Len(text) \/ ~IsWordChar(text[i + Len(word)]))

\* some tag of the call contains an exclusion substring of the genre
ExcludedTagPresent ==
    \E e \in DOMAIN EXCLUSIONS(call.search_genre), j \in DOMAIN call.track_genres :
        Contains(Lower(call.track_genres[j]), EXCLUSIONS(call.search_genre)[e])

\* some tag of the call equals the lowercased genre name or holds it on word boundaries
GenreTagPresent ==
    \E j \in DOMAIN call.track_genres :
        \/ Lower(call.track_genres[j]) = Lower(call.search_genre)
        \/ OnWordBoundaries(Lower(call.search_genre), Lower(call.track_genres[j]))

\* C12: genre_match returns false whenever the genre has an exclusion list
\* and some tag contains one of its exclusion substrings; otherwise it
\* returns true exactly when some tag equals the lowercased genre name or
\* contains it on word boundaries (genre punk matches tag post-punk), and
\* false when no tag matches.
C12_GenreMatchExclusionsThenBoundaryMatch ==
    GenreMatchReturned =>
        ret[1] = (~ExcludedTagPresent /\ GenreTagPresent)

\* genre punk was matched against the single tag post-punk and accepted
C12_Witness ==
    /\ GenreMatchReturned
    /\ call.search_genre = S.punk /\ call.track_genres = <<S.post_punk>>
    /\ ret = <<TRUE>>

\* genre punk was refused for a tag list that holds both punk and pop punk
C12_WitnessExcluded ==
    /\ GenreMatchReturned
    /\ call.search_genre = S.punk /\ call.track_genres = <<S.punk, S.pop_punk>>
    /\ ret = <<FALSE>>

\* generate_filename has returned for the call
FilenameReturned == call # << >> /\ call.fn = "generate_filename" /\ ret # << >>

\* a slug: lowercase letters, digits and hyphens only, no repeated hyphen and
\* no hyphen at either end
IsSlug(s) ==
    /\ \A i \in DOMAIN s :
          s[i] \in { LOWERCASE[c] : c \in DOMAIN LOWERCASE }
                       \cup {"0", "1", "2", "3", "4", "5", "6", "7", "8", "9", "-"}
    /\ \A i \in 1..(Len(s) - 1) : ~(s[i] = "-" /\ s[i + 1] = "-")
    /\ (s # << >> => s[1] # "-" /\ s[Len(s)] # "-")

\* C13: the derived filename removes every credit annotation introduced by
\* feat., ft., featuring or with (in any letter case) in full from artist and
\* title before slugging, so that the slugs are those of the artist and the
\* title without the annotation; each slug is lowercase, holds only
\* characters of [a-z0-9-], no repeated hyphen and no hyphen at either end;
\* the title 'Crazy In Love (feat. Jay-Z)' contributes exactly 'crazy-in-love'.
C13_FilenameStripsCreditsAndSlugs ==
    FilenameReturned =>
        /\ ret[1].safe_artist = generate_filename(call.artist_plain, call.name_plain).safe_artist
        /\ ret[1].safe_name = generate_filename(call.artist_plain, call.name_plain).safe_name
        /\ IsSlug(ret[1].safe_artist) /\ IsSlug(ret[1].safe_name)
        /\ (call.track_name = S.Crazy_In_Love \o S.credit_feat
               => ret[1].safe_name = S.crazy_in_love)

\* C14: in every emitted manifest node the seeds key is present only with a
\* non-empty seed list, the subgenres key only with at least one child and
\* the features key only when the node produced feature data (some value of
\* it is known); every emitted features object carries every configured
\* feature field, tempo_bpm and tempo_norm as keys, null where unknown;
\* killmegod.py and patched_help.
C14_ManifestKeysOnlyWithData ==
    manDone =>
        \A p \in BuiltNodes :
            /\ "seeds" \in DOMAIN p.out => p.out["seeds"] # << >>
            /\ "subgenres" \in DOMAIN p.out => p.out["subgenres"] # << >>
            /\ "features" \in DOMAIN p.out =>
                  /\ \E k \in DOMAIN p.out["features"] : p.out["features"][k] # NONE
                  /\ FEATURE_KEYS \subseteq DOMAIN p.out["features"]


\* ------------------------------------------------------------------------
\* A whole run of a script: its stages and the manifest output file
\* ------------------------------------------------------------------------
\* the stages of a run in source order; killmegod.py runs as a module from
\* the input check to the seed_uris.txt export, patched_help runs main()
RunStages(s) ==
    IF s = "killmegod"
    THEN <<"check_input", "load", "select", "synthetic", "build_manifest",
           "stats", "write_manifest", "write_uris">>
    ELSE <<"args", "load_manifest", "load_results", "build_manifest",
           "write_manifest", "qa_report">>

\* how a stage ends: with status NONE it finished and the run moves to the
\* next stage (exit status 0 after the last one); otherwise the run stops at
\* this stage with that exit status
StageEnds(status) ==
    LET stages == RunStages(script)
        i == CHOOSE k \in DOMAIN stages : stages[k] = pc
    IN IF status # NONE
       THEN /\ exit_status' = status
            /\ UNCHANGED <<pc, completed>>
       ELSE /\ completed' = Append(completed, pc)
            /\ pc' = IF i < Len(stages) THEN stages[i + 1] ELSE "exited"
            /\ exit_status' = IF i < Len(stages) THEN NONE ELSE 0

Running(s, stage_names) ==
    /\ script = s /\ exit_status = NONE /\ pc \in stage_names

InitRun ==
    /\ RulesIdle
    /\ FeatIdle
    /\ script \in {"killmegod", "patched_help"}
    /\ tracks = << >> /\ noise = "flat" /\ pos = 0
    /\ global_seen_ids = {} /\ global_seen_artists = {}
    /\ results \in { r \in ManResults :
                        /\ r[S.Modern] = << >>
                        /\ r[S.alternative_rock] = r[S.indie_rock]
                        /\ r[S.indie_rock] = r[S.shoegaze] }
    /\ GENRE_TREE \in {RockTree, WideTree}
    /\ manifest = << >> /\ manDone = FALSE
    /\ call = << >> /\ ret = << >>
    /\ pc = RunStages(script)[1]
    /\ completed = << >>
    /\ manifest_file \in {[state |-> "absent"], [state |-> "old"]}
    /\ exit_status = NONE

\* killmegod.py: a missing DATA_FILE ends the run with exit(1)
KillmegodInputCheck ==
    /\ Running("killmegod", {"check_input"})
    /\ \E exists \in BOOLEAN : StageEnds(IF exists THEN NONE ELSE 1)
    /\ UNCHANGED <<ruleVars, script, featVars, selVars, manVars, funVars, manifest_file>>

\* killmegod.py: loading, selection, synthetic parents, statistics and the
\* seed_uris.txt export; an uncaught exception ends the run with status 1
KillmegodStage ==
    /\ Running("killmegod", {"load", "select", "synthetic", "stats", "write_uris"})
    /\ \E raised \in BOOLEAN : StageEnds(IF raised THEN 1 ELSE NONE)
    /\ UNCHANGED <<ruleVars, script, featVars, selVars, manVars, funVars, manifest_file>>

\* killmegod.py: manifest[name] = build_manifest(node, [name]) for the tree
KillmegodBuildStage ==
    /\ Running("killmegod", {"build_manifest"})
    /\ manifest' \in build_manifest_all(GENRE_TREE, results)
    /\ manDone' = TRUE
    /\ StageEnds(NONE)
    /\ UNCHANGED <<ruleVars, script, featVars, selVars, GENRE_TREE, funVars, manifest_file>>

\* Mutant: the manifest file is opened and written ahead of the statistics
KillmegodWriteManifest_before_stats ==
    /\ Running("killmegod", {"stats"})
    /\ manifest_file' = [state |-> "written", content |-> manifest]
    /\ StageEnds(NONE)
    /\ UNCHANGED <<ruleVars, script, featVars, selVars, manVars, funVars>>

\* killmegod.py: open(CONFIG['output_file'], 'w') and json.dump(manifest);
\* open() may fail and leave the file alone, and a failure after open()
\* leaves a truncated file
KillmegodWriteManifest ==
    /\ Running("killmegod", {"write_manifest"})
    /\ \/ /\ manifest_file' = [state |-> "written", content |-> manifest]
          /\ StageEnds(NONE)
       \/ /\ manifest_file' \in {manifest_file, [state |-> "partial"]}
          /\ StageEnds(1)
    /\ UNCHANGED <<ruleVars, script, featVars, selVars, manVars, funVars>>

\* patched_help main: fewer than three arguments return 2; a failed load of
\* either input and a failed qa_report are caught and return 1
PatchedMainStage ==
    /\ Running("patched_help", {"args", "load_manifest", "load_results", "qa_report"})
    /\ \E failed \in BOOLEAN :
          StageEnds(IF ~failed THEN NONE ELSE IF pc = "args" THEN 2 ELSE 1)
    /\ UNCHANGED <<ruleVars, script, featVars, selVars, manVars, funVars, manifest_file>>

\* patched_help main: export = buildManifestTree(manifest_root, results, ...)
PatchedMainBuild ==
    /\ Running("patched_help", {"build_manifest"})
    /\ \/ /\ manifest' \in build_node_all(GENRE_TREE, results)
          /\ manDone' = TRUE
          /\ StageEnds(NONE)
       \/ /\ UNCHANGED <<manifest, manDone>>
          /\ StageEnds(1)
    /\ UNCHANGED <<ruleVars, script, featVars, selVars, GENRE_TREE, funVars, manifest_file>>

\* patched_help main: _save_json(out_path, export)
PatchedMainSave ==
    /\ Running("patched_help", {"write_manifest"})
    /\ \/ /\ manifest_file' = [state |-> "written", content |-> manifest]
          /\ StageEnds(NONE)
       \/ /\ manifest_file' \in {manifest_file, [state |-> "partial"]}
          /\ StageEnds(1)
    /\ UNCHANGED <<ruleVars, script, featVars, selVars, manVars, funVars>>

NextRun ==
    \/ KillmegodInputCheck
    \/ KillmegodStage
    \/ KillmegodBuildStage
    \/ KillmegodWriteManifest
    \/ PatchedMainStage
    \/ PatchedMainBuild
    \/ PatchedMainSave

SpecRun == InitRun /\ [][NextRun]_vars

\* the stages that precede the writing of the manifest file
StagesBeforeWrite(s) ==
    LET stages == RunStages(s)
        w == CHOOSE k \in DOMAIN stages : stages[k] = "write_manifest"
    IN { stages[k] : k \in 1..(w - 1) }

\* C15: the manifest output file changes only in a step taken after every
\* earlier stage of the run (loading, seed selection, manifest building,
\* statistics) has completed without error, and a run that failed in one of
\* those stages ends with a non-zero status and the file as it was
C15_ManifestWrittenOnlyAfterFullPass ==
    /\ [][manifest_file'.state # manifest_file.state =>
             /\ exit_status = NONE
             /\ StagesBeforeWrite(script) \subseteq { completed[k] : k \in DOMAIN completed }
             /\ manDone]_vars
    /\ [](exit_status \notin {NONE, 0} /\ pc \in StagesBeforeWrite(script) =>
             manifest_file.state \in {"absent", "old"})

C15_Witness ==
    /\ manifest_file.state = "written"
    /\ manifest_file.content = manifest
    /\ exit_status = 0

C15_WitnessFailedRun ==
    /\ script = "killmegod" /\ pc = "check_input" /\ exit_status = 1
    /\ manifest_file.state = "old"


\* ------------------------------------------------------------------------
\* Selection over datasets with malformed track fields
\* ------------------------------------------------------------------------
\* tracks with one malformed or missing field each: a null popularity (of a
\* whitelisted and of another artist), a non-numeric popularity, an
\* unparseable release year, no id, no artist
MalformedTracks ==
    << MkTrack(<<"m", "1">>, S.Alison, <<SHOEGAZE_WHITELIST[2]>>,
               <<S.shoegaze, S.dream_pop>>, 1991, NULLVAL, NONE),
       MkTrack(<<"m", "2">>, S.Leave, <<S.Korn>>,
               <<S.shoegaze>>, 1992, NULLVAL, NONE),
       MkTrack(<<"m", "3">>, S.Leave, <<S.Weezer>>,
               <<S.shoegaze>>, 1993, BADVAL, NONE),
       MkTrack(<<"m", "4">>, S.Alison, <<S.Weezer>>,
               <<S.alternative_rock, S.rock>>, BADVAL, 55, NONE),
       MkTrack(<< >>, S.Leave, <<S.Bush>>,
               <<S.alternative_rock, S.rock>>, 1994, 65, NONE),
       MkTrack(<<"m", "6">>, S.Alison, << >>,
               <<S.shoegaze, S.dream_pop>>, 1995, 50, NONE) >>

\* two well-formed tracks followed by any of the malformed ones
MalformedDatasets ==
    { <<CoreTracks[3], CoreTracks[4]>> \o SelectSeq(MalformedTracks, LAMBDA t : t \in keep) :
        keep \in SUBSET { MalformedTracks[i] : i \in DOMAIN MalformedTracks } }

InitMalformed ==
    /\ evaluator = "none" /\ genre = << >> /\ track = << >>
    /\ done = FALSE /\ verdict = FALSE
    /\ FeatIdle
    /\ script \in {"killmegod", "test"}
    /\ GENRE_RULES = StartRules(script)
    /\ tracks \in MalformedDatasets
    /\ noise = "flat"
    /\ pos = 1
    /\ results = << >>
    /\ global_seen_ids = {}
    /\ global_seen_artists = {}
    /\ AuxIdle

NextMalformed ==
    \/ KillmegodSelectReal
    \/ KillmegodSelectRaises
    \/ TestSelect

SpecMalformed == InitMalformed /\ [][NextMalformed]_vars

\* C16: a run over tracks with a null or non-numeric popularity, an
\* unparseable release year, a missing id or an empty artist list never
\* aborts: no iteration of the selection loop raises, so the exit status
\* never becomes an error status
C16_MalformedFieldNeverAbortsBatch ==
    exit_status = NONE


\* ------------------------------------------------------------------------
\* patched_help: input validation and the build over malformed inputs
\* ------------------------------------------------------------------------
\* The loaded results JSON keeps the type of every value: a pool is
\* [kind, items] with kind "list", "str" (items: its characters), "int" or
\* "null", and an entry of a pool is [kind |-> "dict", t |-> track] or a
\* value of another kind.

\* validate_track_shape(t)
validate_track_shape(e) ==
    e.kind = "dict" /\ e.t.uri # << >> /\ e.t.name # << >>

\* validate_results(results): the problems found, as [pool, index] with
\* index NONE for "Pool ... is not a list"
validate_results(raw) ==
    { [pool |-> g, index |-> NONE] : g \in { k \in DOMAIN raw : raw[k].kind # "list" } }
    \cup { [pool |-> p[1], index |-> p[2]] :
             p \in { q \in (DOMAIN raw) \X (0..2) :
                       /\ raw[q[1]].kind = "list"
                       /\ q[2] + 1 \in DOMAIN raw[q[1]].items
                       /\ ~validate_track_shape(raw[q[1]].items[q[2] + 1]) } }

\* validate_manifest_shape(root): the names of the entries reported with
\* "Node ... is not an object"; a "subgenres" of the model is always an object
validate_manifest_shape(root) ==
    { root[i].name : i \in { k \in DOMAIN root : root[k].node.kind # "dict" } }

\* build_node reaches choose_seeds_for_genre with a pool it cannot handle:
\* `if pool:` admits every truthy value, and `t.get("uri")` over the items of
\* the pool raises for a number (not iterable) and for every item that is
\* not an object (AttributeError)
build_raises(root, raw) ==
    LET get(key) == IF key # << >> /\ key \in DOMAIN raw THEN raw[key]
                    ELSE [kind |-> "list", items |-> << >>]
        truthy(pool) == pool.kind = "int" \/ pool.items # << >>
        resolve(node) == IF truthy(get(node._seeds)) THEN get(node._seeds)
                         ELSE get(node._alias)
        raises(pool) ==
            /\ truthy(pool)
            /\ \/ pool.kind = "int"
               \/ \E i \in DOMAIN pool.items : pool.items[i].kind # "dict"
        RECURSIVE visit(_)
        visit(node) ==
            \/ raises(resolve(node))
            \/ \E i \in DOMAIN DictChildren(node) : visit(DictChildren(node)[i].node)
    IN \E i \in DOMAIN root : root[i].node.kind = "dict" /\ visit(root[i].node)

\* the pools as build_node sees them once nothing raises: the tracks of a
\* list, nothing for a falsy value; a pool that no node reads keeps only
\* its objects here and is never iterated
PoolTracks(raw) ==
    LET objects(items) == SelectSeq(items, LAMBDA e : e.kind = "dict")
        tracks_of(items) == [i \in DOMAIN items |-> items[i].t]
    IN [ g \in DOMAIN raw |->
           IF raw[g].kind = "list" THEN tracks_of(objects(raw[g].items)) ELSE << >> ]

\* the taxonomy with an entry that is not an object at the root and among
\* the subgenres of "rock"
JunkTree ==
    << [ name |-> S.rock,
         node |-> TreeNode(S.rock, << >>,
            << [name |-> S.Junk, node |-> [kind |-> "other"]],
               [name |-> S.shoegaze,
                node |-> TreeNode(S.shoegaze, << >>, << >>)] >>) ],
       [ name |-> S.Junk, node |-> [kind |-> "other"] ] >>

\* result maps over three pools: well-formed lists, lists with an entry
\* that is not an object or that lacks its uri, and values that are no lists
RawResults ==
    LET ft(uri) == CHOOSE t \in FeatTracks : t.uri = uri
        entry(t) == [kind |-> "dict", t |-> t]
        list(items) == [kind |-> "list", items |-> items]
        pools == { list(<< >>),
                   list(<<entry(ft(<<"1">>))>>),
                   list(<<entry(ft(<<"3">>)), [kind |-> "str"]>>),
                   list(<<entry([ft(<<"6">>) EXCEPT !.uri = << >>])>>),
                   [kind |-> "str", items |-> <<[kind |-> "str"], [kind |-> "str"]>>],
                   [kind |-> "int", items |-> << >>],
                   [kind |-> "null", items |-> << >>] }
    IN { [ g \in {S.rock, S.alternative_rock, S.shoegaze} |->
             IF g = S.rock THEN r ELSE IF g = S.alternative_rock THEN a ELSE s ] :
           r \in pools, a \in pools, s \in pools }

InitValidate ==
    /\ RulesIdle
    /\ FeatIdle
    /\ SelIdle
    /\ script = "patched_help"
    /\ GENRE_TREE \in {RockTree, JunkTree}
    /\ manifest = << >> /\ manDone = FALSE
    /\ call \in { [fn |-> "buildManifestTree", results |-> raw] : raw \in RawResults }
    /\ ret = << >>
    /\ pc = "validate"
    /\ completed = << >>
    /\ manifest_file \in {[state |-> "absent"], [state |-> "old"]}
    /\ exit_status = NONE

\* buildManifestTree: the validation problems are printed as warnings
PatchedValidate ==
    /\ script = "patched_help" /\ pc = "validate" /\ exit_status = NONE
    /\ ret' = << [nodes |-> validate_manifest_shape(GENRE_TREE),
                  pools |-> validate_results(call.results)] >>
    /\ pc' = "build_manifest"
    /\ completed' = Append(completed, pc)
    /\ UNCHANGED <<ruleVars, script, featVars, selVars, manVars, call,
                   manifest_file, exit_status>>

\* buildManifestTree builds the nodes and main saves the export; an
\* exception of the build is caught by main, which returns 1 without saving
PatchedBuildAndSave ==
    /\ script = "patched_help" /\ pc = "build_manifest" /\ exit_status = NONE
    /\ IF build_raises(GENRE_TREE, call.results)
       THEN /\ exit_status' = 1
            /\ UNCHANGED <<manVars, pc, completed, manifest_file>>
       ELSE /\ manifest' \in build_node_all(GENRE_TREE, PoolTracks(call.results))
            /\ manDone' = TRUE
            /\ manifest_file' = [state |-> "written", content |-> manifest']
            /\ pc' = "exited"
            /\ completed' = completed \o <<"build_manifest", "write_manifest">>
            /\ exit_status' = 0
            /\ UNCHANGED GENRE_TREE
    /\ UNCHANGED <<ruleVars, script, featVars, selVars, funVars>>

NextValidate == PatchedValidate \/ PatchedBuildAndSave

SpecValidate == InitValidate /\ [][NextValidate]_vars

\* validation reported at least one problem
ProblemsReported ==
    ret # << >> /\ (ret[1].nodes # {} \/ ret[1].pools # {})

\* C17: when validation reports problems, they stay warnings: the run does
\* not end with an error status, and once it has ended the manifest has
\* been built and written
C17_ValidationProblemsAreWarningsOnly ==
    ProblemsReported =>
        /\ exit_status \in {NONE, 0}
        /\ exit_status = 0 => manDone /\ manifest_file.state = "written"


\* ------------------------------------------------------------------------
\* build_seed_map of test.py over tracks with excluded and denied tags
\* ------------------------------------------------------------------------
\* rock and alternative rock tracks, among them one tagged " Pop Rock "
\* (EXCLUSIONS of rock), one tagged "dance pop" (denied for alternative
\* rock) and a second track of Bush
SeedMapTracks ==
    << CoreTracks[1], CoreTracks[2], CoreTracks[3],
       MkTrack(<<"x", "1">>, S.Leave, <<S.Korn>>, <<S.rock, S.Pop_Rock_tag>>, 1992, 62, NONE),
       MkTrack(<<"x", "2">>, S.Leave, <<S.Riders>>,
               <<S.alternative_rock, S.dance_pop>>, 1991, 61, NONE),
       MkTrack(<<"x", "3">>, S.Leave, <<S.Bush>>, <<S.rock>>, 1997, 58, NONE),
       MkTrack(<<"x", "4">>, S.Alison, <<S.Ride>>,
               <<S.rock, S.alternative_rock>>, 1990, 66, NONE),
       MkTrack(<<"x", "5">>, S.Alison, <<S.kor>>, <<S.rock>>, 1989, 30, NONE) >>

InitSeedMap ==
    /\ evaluator = "none" /\ genre = << >> /\ track = << >>
    /\ done = FALSE /\ verdict = FALSE
    /\ FeatIdle
    /\ script = "test"
    /\ GENRE_RULES = StartRules(script)
    /\ tracks \in { SelectSeq(SeedMapTracks, LAMBDA t : t \in keep) :
                      keep \in SUBSET { SeedMapTracks[i] : i \in DOMAIN SeedMapTracks } }
    /\ noise = "flat"
    /\ pos = 1
    /\ results = << >>
    /\ global_seen_ids = {}
    /\ global_seen_artists = {}
    /\ GENRE_TREE = << >> /\ manifest = << >> /\ manDone = FALSE
    /\ call \in { [fn |-> "build_seed_map", GLOBAL_UNIQUENESS |-> b] : b \in BOOLEAN }
    /\ ret = << >>
    /\ RunIdle

SpecSeedMap == InitSeedMap /\ [][TestSelect]_vars

\* the tags listed for a genre: EXCLUSIONS[g] and the deny list of its rules
ListedTags(g) ==
    EXCLUSIONS(g) \o RulesGet(GENRE_RULES, g).deny_artist_genres_any

\* the tracks of the genre's bucket that pass its rules
RulePassing(g) ==
    { t \in TrackSet(tracks_by_genre(tracks, g)) :
        test_passes_rules(g, t, RulesGet(GENRE_RULES, g)) }

\* a track or its primary artist was selected for an earlier genre of a run
\* with global uniqueness
ConsumedEarlier(t) ==
    /\ GLOBAL_UNIQUENESS
    /\ \/ t.uri # << >> /\ t.uri \in global_seen_ids
       \/ PrimaryArtist(t) # << >> /\ PrimaryArtist(t) \in global_seen_artists

\* no seed written for g carries a tag listed for g
NoListedTag(g, seeds) ==
    \A i \in DOMAIN seeds : \A j \in DOMAIN seeds[i].artist_genres :
        \A k \in DOMAIN ListedTags(g) :
            norm_text(seeds[i].artist_genres[j]) # norm_text(ListedTags(g)[k])

\* every track of the pool whose primary artist no other track of the pool
\* shares is among the seeds, and every artist of the pool has a seed
OnePerArtist(pool, seeds) ==
    \A t \in pool :
        /\ (\A u \in pool \ {t} : PrimaryArtist(u) # PrimaryArtist(t))
              => t \in TrackSet(seeds)
        /\ \E s \in TrackSet(seeds) : PrimaryArtist(s) = PrimaryArtist(t)

\* C18 as stated: no seed that build_seed_map selects for a genre carries a
\* tag of EXCLUSIONS[g] or of g's deny list, and when fewer than K tracks of
\* g pass its rules, every rule-passing track with a distinct primary
\* artist is selected for g
C18_SeedMapSelectsEveryPassingCandidate ==
    [][script = "test" /\ pos \in DOMAIN PLAYABLE_GENRES =>
          /\ NoListedTag(PLAYABLE_GENRES[pos], results'[PLAYABLE_GENRES[pos]])
          /\ Cardinality(RulePassing(PLAYABLE_GENRES[pos])) < test_K =>
                OnePerArtist(RulePassing(PLAYABLE_GENRES[pos]),
                             results'[PLAYABLE_GENRES[pos]])]_vars

\* C18, amended: no seed that build_seed_map selects for a genre carries a
\* tag of EXCLUSIONS[g] or of g's deny list, and when fewer than K tracks of
\* g pass its rules, every rule-passing track that global uniqueness has
\* not consumed for an earlier genre and whose primary artist no other such
\* track shares is selected for g
C18_SeedMapHonoursExclusionsAndFillsFromPassing ==
    [][script = "test" /\ pos \in DOMAIN PLAYABLE_GENRES =>
          /\ NoListedTag(PLAYABLE_GENRES[pos], results'[PLAYABLE_GENRES[pos]])
          /\ Cardinality(RulePassing(PLAYABLE_GENRES[pos])) < test_K =>
                OnePerArtist({ t \in RulePassing(PLAYABLE_GENRES[pos]) : ~ConsumedEarlier(t) },
                             results'[PLAYABLE_GENRES[pos]])]_vars

C18_Witness ==
    /\ script = "test" /\ pos > Len(PLAYABLE_GENRES)
    /\ call.GLOBAL_UNIQUENESS
    /\ \E i \in DOMAIN tracks : tracks[i].uri = <<"x", "1">>
    /\ Len(results[S.rock]) \in 1..(test_K - 1)
    /\ \E t \in TrackSet(results[S.rock]) :
          /\ \E j \in DOMAIN t.artist_genres : t.artist_genres[j] = S.alternative_rock
          /\ t \notin TrackSet(results[S.alternative_rock])


\* linear_quantile has returned for the call
QuantileReturned == call # << >> /\ call.fn = "linear_quantile" /\ ret # << >>

\* the k-th smallest of the values, found by counting
OrderStat(vals, k) ==
    CHOOSE v \in { vals[i] : i \in DOMAIN vals } :
        /\ Cardinality({ i \in DOMAIN vals : vals[i] < v }) < k
        /\ Cardinality({ i \in DOMAIN vals : vals[i] <= v }) >= k

\* the value at fractional index h (in hundredths, counted from 0) of the
\* sorted values, interpolated between its two neighbours, in hundredths
AtFractionalIndex(vals, h) ==
    IF h % 100 = 0 THEN 100 * OrderStat(vals, (h \div 100) + 1)
    ELSE OrderStat(vals, (h \div 100) + 1) * (100 - (h % 100))
         + OrderStat(vals, (h \div 100) + 2) * (h % 100)

\* C19: on a non-empty list linear_quantile returns the value at fractional
\* index (n-1)*q of the sorted values, interpolated linearly between the two
\* bracketing values, and the single value when n = 1; for [10, 20, 30, 40]
\* it gives p50 = 25.0 and p10 = 13.0 (results in hundredths)
C19_LinearQuantileInterpolates ==
    QuantileReturned /\ call.vals # << >> =>
        /\ ret[1] = AtFractionalIndex(call.vals, (Len(call.vals) - 1) * call.q)
        /\ Len(call.vals) = 1 => ret[1] = 100 * call.vals[1]
        /\ call.vals = <<10, 20, 30, 40>> /\ call.q = 50 => ret[1] = 2500
        /\ call.vals = <<10, 20, 30, 40>> /\ call.q = 10 => ret[1] = 1300

C19_Witness ==
    /\ QuantileReturned
    /\ call.vals = <<10, 20, 30, 40>> /\ call.q = 10
    /\ ret = <<1300>>

\* a normalizer has been applied to its argument and to its own result
NormalizedTwice ==
    call # << >> /\ call.fn \in {"norm_text", "norm_tags", "canon"} /\ Len(ret) = 2

\* C20: every normalizer (norm_text, norm_tags element by element, canon) is
\* idempotent: applied to its own output it returns that output unchanged
C20_NormalizersAreIdempotent ==
    NormalizedTwice => ret[2] = ret[1]

\* ------------------------------------------------------------------------
\* Properties of the rule table during selection
\* ------------------------------------------------------------------------
\* C21: no step of a selection pass changes a rule record: GENRE_RULES after
\* the step for a genre equals GENRE_RULES before it, also when the step
\* relaxes the rules of a sparse genre
C21_RuleRecordsUnchangedBySelection == [][GENRE_RULES' = GENRE_RULES]_vars

\* ------------------------------------------------------------------------
\* Properties of the processing order (killmegod.py)
\* ------------------------------------------------------------------------
\* the deepest path of the taxonomy of the selection runs
MaxTreeDepth == 3

\* the node reached from the top level by a path of child positions, or a
\* node of kind "none" where the path leaves the tree
NodeAt(items, path) ==
    LET RECURSIVE at(_, _)
        at(list, p) ==
            IF Head(p) \notin DOMAIN list THEN [kind |-> "none"]
            ELSE IF Len(p) = 1 THEN list[Head(p)].node
            ELSE IF list[Head(p)].node.kind = "dict"
                    /\ list[Head(p)].node.subgenres.kind = "dict"
                 THEN at(list[Head(p)].node.subgenres.items, Tail(p))
                 ELSE [kind |-> "none"]
    IN at(items, path)

\* the paths of the nodes that declare the seed key g
DeclaredAt(items, g) ==
    { p \in UNION { [1..d -> 1..2] : d \in 1..MaxTreeDepth } :
        NodeAt(items, p).kind = "dict" /\ NodeAt(items, p)._seeds = g }

\* path a comes before path b in declaration order: a is a proper prefix of
\* b (a node before its subgenres), or a turns to an earlier key where the
\* two part
PathBefore(a, b) ==
    \E k \in 1..Len(b) :
        /\ \A i \in 1..(k - 1) : i <= Len(a) /\ a[i] = b[i]
        /\ (k = Len(a) + 1 \/ (k <= Len(a) /\ a[k] < b[k]))

\* the seed keys that the taxonomy declares
DeclaredSeedKeys ==
    { g \in {S.rock, S.alternative_rock, S.shoegaze, S.indie_rock} :
        DeclaredAt(RockTree, g) # {} }

\* seed key g is declared before seed key h
DeclaredBefore(g, h) ==
    \E a \in DeclaredAt(RockTree, g) :
        \A b \in DeclaredAt(RockTree, h) : PathBefore(a, b)

\* the key whose seed list the step from the current state writes
WrittenKey == CHOOSE g \in DOMAIN results' : g \notin DOMAIN results

\* the seeds that earlier steps of the run wrote
EarlierSeeds == UNION { TrackSet(results[g]) : g \in DOMAIN results }

\* one step of the run of killmegod.py handles one key that has no seed list
\* yet; a real genre is handled when exactly the genres declared before it
\* are done, a synthetic node when every real genre is done; and no seed it
\* writes is a track or has the primary artist of an earlier seed
OrderStep ==
    script = "killmegod" =>
        /\ Cardinality(DOMAIN results') = Cardinality(DOMAIN results) + 1
        /\ \A g \in DOMAIN results : results'[g] = results[g]
        /\ IF WrittenKey \in DeclaredSeedKeys
           THEN \A h \in DeclaredSeedKeys \ {WrittenKey} :
                    h \in DOMAIN results <=> DeclaredBefore(h, WrittenKey)
           ELSE /\ DeclaredSeedKeys \subseteq DOMAIN results
                /\ \E n \in DOMAIN synthetic_genres :
                      synthetic_genres[n].display_name = WrittenKey
        /\ \A t \in TrackSet(results'[WrittenKey]), e \in EarlierSeeds :
              t.uri # e.uri /\ ArtistKey(t) # ArtistKey(e)

\* C22: real genres are handled one at a time in the declaration order of
\* the taxonomy, each seed key once, synthetic nodes after every real genre,
\* and a track or artist taken for one genre is taken for no later one
C22_DeclarationOrderAndConsumption == [][OrderStep]_vars

\* a finished run in which rock took a track that also matches alternative
\* rock and passes its rules, and alternative rock was left short of it
C22_Witness ==
    /\ script = "killmegod" /\ BatchDone
    /\ DOMAIN results = DeclaredSeedKeys \cup {S.Modern}
    /\ Len(results[S.alternative_rock]) < seeds_per_genre
    /\ \E t \in TrackSet(results[S.rock]) :
          /\ genre_match(S.alternative_rock, norm_tags(t.artist_genres))
          /\ passes_rules(S.alternative_rock, t, GENRE_RULES)

\* ------------------------------------------------------------------------
\* Selection over datasets that the matcher, the evaluator and the
\* uniqueness tracker all have to act on (killmegod.py, v2.py, test.py)
\* ------------------------------------------------------------------------
\* an alternative rock track that rock's matcher excludes (tag "soft rock")
AltTrack(n, artist, pop) ==
    MkTrack(<<"a", n>>, S.Alison, <<artist>>,
            <<S.alternative_rock, S.soft_rock>>, 1995, pop, NONE)

\* a shoegaze track of the i-th whitelisted artist
GazeTrack(i, n, name, pop) ==
    MkTrack(<<"s", n>>, name, <<SHOEGAZE_WHITELIST[i]>>,
            <<S.shoegaze, S.dream_pop>>, 1991, pop, NONE)

\* the tracks in file order, each with the group that brings it into a
\* dataset: five alternative rock and five shoegaze tracks are always there;
\* "dup" is a second, better-scoring track of the first artist; "crowd" are
\* five more alternative rock tracks; "both" carries the tags of both
\* genres; "pop", "excl", "name" fail the popularity window, the matcher's
\* exclusions and the title deny list; "sixth" is a sixth shoegaze track;
\* "noartist" names no artist
GateTracks ==
    << [grp |-> "base", t |-> AltTrack("1", S.Bush, 40)],
       [grp |-> "dup", t |-> MkTrack(<<"a", "d">>, S.Leave, <<S.Bush>>,
                  <<S.alternative_rock, S.soft_rock>>, 1996, 69, NONE)],
       [grp |-> "base", t |-> AltTrack("2", S.Weezer, 60)],
       [grp |-> "base", t |-> AltTrack("3", S.Korn, 50)],
       [grp |-> "base", t |-> AltTrack("4", S.Junk, 45)],
       [grp |-> "base", t |-> AltTrack("5", S.Jay_Z, 42)],
       [grp |-> "crowd", t |-> AltTrack("6", S.Unknown, 52)],
       [grp |-> "crowd", t |-> AltTrack("7", S.Leave, 53)],
       [grp |-> "crowd", t |-> AltTrack("8", S.Riders, 54)],
       [grp |-> "crowd", t |-> AltTrack("9", S.Modern, 55)],
       [grp |-> "crowd", t |-> AltTrack("0", S.Track_9, 56)],
       [grp |-> "both", t |-> MkTrack(<<"a", "b">>, S.Alison, <<S.Beyonce>>,
                  <<S.alternative_rock, S.shoegaze, S.soft_rock>>, 1995, 36, NONE)],
       [grp |-> "pop", t |-> AltTrack("p", S.Crazy_In_Love, 20)],
       [grp |-> "excl", t |-> MkTrack(<<"r", "x">>, S.Alison, <<S.Punk_Rock>>,
                  <<S.rock, S.pop_rock>>, 1995, 69, NONE)],
       [grp |-> "base", t |-> GazeTrack(1, "1", S.Alison, 40)],
       [grp |-> "base", t |-> GazeTrack(2, "2", S.Alison, 45)],
       [grp |-> "base", t |-> GazeTrack(3, "3", S.Alison, 50)],
       [grp |-> "base", t |-> GazeTrack(4, "4", S.Alison, 55)],
       [grp |-> "base", t |-> GazeTrack(5, "5", S.Alison, 60)],
       [grp |-> "sixth", t |-> GazeTrack(6, "6", S.Alison, 30)],
       [grp |-> "name", t |-> GazeTrack(7, "n", S.Alison_Live, 69)],
       [grp |-> "noartist", t |-> MkTrack(<<"s", "0">>, S.Alison, << >>,
                  <<S.shoegaze, S.dream_pop>>, 1991, 50, NONE)] >>

\* the groups a dataset may or may not hold
GateGroups == {"dup", "crowd", "both", "pop", "excl", "sixth", "name", "noartist"}

\* the datasets: the base tracks and the tracks of any groups, in file order
GateDatasets ==
    { LET kept == SelectSeq(GateTracks, LAMBDA e : e.grp = "base" \/ e.grp \in keep)
      IN [i \in DOMAIN kept |-> kept[i].t] : keep \in SUBSET GateGroups }

InitGate ==
    /\ evaluator = "none" /\ genre = << >> /\ track = << >>
    /\ done = FALSE /\ verdict = FALSE
    /\ FeatIdle
    /\ script \in {"killmegod", "v2", "test"}
    /\ GENRE_RULES = StartRules(script)
    /\ tracks \in GateDatasets
    /\ noise = "flat"
    /\ pos = 1
    /\ results = << >>
    /\ global_seen_ids = {}
    /\ global_seen_artists = {}
    /\ AuxIdle

NextGate ==
    \/ KillmegodSelectReal
    \/ KillmegodSelectSynthetic
    \/ V2Select
    \/ TestSelect

SpecGate == InitGate /\ [][NextGate]_vars

\* ------------------------------------------------------------------------
\* Properties of the selection pipeline (killmegod.py)
\* ------------------------------------------------------------------------
\* the track matches the genre and passes its rules
MatchedAndPassed(g, t) ==
    /\ genre_match(g, norm_tags(t.artist_genres))
    /\ passes_rules(g, t, GENRE_RULES)

\* the synthetic nodes that have a seed list
BuiltSynthetic ==
    { n \in DOMAIN synthetic_genres : synthetic_genres[n].display_name \in DOMAIN results }

\* C23: in a run of killmegod.py every seed of a real genre matches the
\* genre and passes its rules, and every seed of a synthetic node matches
\* and passes the rules of one of the node's direct child genres
C23_SeedsPassedMatcherAndEvaluator ==
    script = "killmegod" =>
        /\ \A i \in DOMAIN PLAYABLE_GENRES :
              PLAYABLE_GENRES[i] \in DOMAIN results =>
                  \A t \in TrackSet(results[PLAYABLE_GENRES[i]]) :
                      MatchedAndPassed(PLAYABLE_GENRES[i], t)
        /\ \A n \in BuiltSynthetic :
              \A t \in TrackSet(results[synthetic_genres[n].display_name]) :
                  \E c \in DOMAIN synthetic_genres[n].child_seeds :
                      MatchedAndPassed(synthetic_genres[n].child_seeds[c], t)

\* a finished run with seeds for a genre and for the synthetic node, over a
\* dataset that holds a track of the genre's bucket that fails its rules and
\* a track of a rock bucket that the matcher excludes; neither is a seed
C23_Witness ==
    /\ script = "killmegod" /\ BatchDone
    /\ results[S.alternative_rock] # << >> /\ results[S.Modern] # << >>
    /\ \E u \in TrackSet(tracks), v \in TrackSet(tracks) :
          /\ genre_match(S.alternative_rock, norm_tags(u.artist_genres))
          /\ ~passes_rules(S.alternative_rock, u, GENRE_RULES)
          /\ \E j \in DOMAIN v.artist_genres : v.artist_genres[j] = S.rock
          /\ ~genre_match(S.rock, norm_tags(v.artist_genres))
          /\ \A g \in DOMAIN results : u \notin TrackSet(results[g]) /\ v \notin TrackSet(results[g])

\* ------------------------------------------------------------------------
\* Properties of the synthetic pass (killmegod.py)
\* ------------------------------------------------------------------------
\* the synthetic node that the step from the current state handles
NodeInTurn == synthetic_genres[pos - Len(PLAYABLE_GENRES)]

\* the tracks that are candidates of child genre c when the node's turn
\* begins and are still free under global uniqueness
FreeCandidates(c) ==
    { t \in TrackSet(tracks) :
        /\ t.uri # << >> /\ MatchedAndPassed(c, t)
        /\ ~GloballySeen(t.uri, ArtistKey(t), global_seen_ids, global_seen_artists) }

\* the seed list holds a track of child genre c
Represented(c, seeds) == \E t \in TrackSet(seeds) : MatchedAndPassed(c, t)

\* every free candidate of c lost its id or its artist to a seed of the list
AllTakenBy(c, seeds) ==
    \A u \in FreeCandidates(c) :
        \E s \in TrackSet(seeds) : s.uri = u.uri \/ ArtistKey(s) = ArtistKey(u)

\* behind at most one seed per child, the seeds are in increasing order of
\* their distance to the aggregate features of the children's seeds
FilledByDistance(node, seeds) ==
    LET dist(i) == feature_distance(seeds[i],
                       compute_aggregate_features(node.child_seeds, results))
    IN \E k \in 0..Len(node.child_seeds) :
          \A i \in DOMAIN seeds, j \in DOMAIN seeds :
              (k < i /\ i < j) => dist(i) <= dist(j)

\* the step for a synthetic node: every child with a free candidate is
\* represented (or lost all its candidates to the seeds of the node), the
\* remaining seeds come in order of distance, and no seed repeats a track or
\* artist of the run or of the list
SyntheticStep ==
    (script = "killmegod" /\ pos > Len(PLAYABLE_GENRES) /\ ~KillmegodDone) =>
        LET node == NodeInTurn
            seeds == results'[node.display_name]
        IN /\ \A c \in DOMAIN node.child_seeds :
                 FreeCandidates(node.child_seeds[c]) # {} =>
                     \/ Represented(node.child_seeds[c], seeds)
                     \/ AllTakenBy(node.child_seeds[c], seeds)
           /\ FilledByDistance(node, seeds)
           /\ \A i \in DOMAIN seeds :
                 /\ ~GloballySeen(seeds[i].uri, ArtistKey(seeds[i]),
                                  global_seen_ids, global_seen_artists)
                 /\ \A j \in DOMAIN seeds :
                       i # j => /\ seeds[i].uri # seeds[j].uri
                                /\ ArtistKey(seeds[i]) # ArtistKey(seeds[j])

\* C24: the seeds of a synthetic node hold one track for every direct child
\* that has a candidate free under global uniqueness, the other slots are
\* filled in increasing order of distance to the aggregate feature vector,
\* and every pick respects global track and artist uniqueness
C24_SyntheticRepresentsEveryChild == [][SyntheticStep]_vars

\* ------------------------------------------------------------------------
\* Properties of the per-genre de-duplication (killmegod.py, v2.py, test.py)
\* ------------------------------------------------------------------------
\* the real genre that the step from the current state handles
GenreInTurn == PLAYABLE_GENRES[pos]

\* the candidates of the genre in turn: the tracks that passed the script's
\* matcher and evaluator before de-duplication
CandidatesInTurn ==
    IF script = "killmegod" THEN Candidates(GenreInTurn, tracks, GENRE_RULES)
    ELSE IF script = "v2"
    THEN v2_Gather(GenreInTurn, tracks_by_genre(tracks, Lower(GenreInTurn)),
                   << >>, GENRE_RULES).cands
    ELSE SelectSeq(tracks_by_genre(tracks, GenreInTurn),
             LAMBDA t : /\ test_passes_rules(GenreInTurn, t, RulesGet(GENRE_RULES, GenreInTurn))
                        /\ ~(t.uri # << >> /\ t.uri \in global_seen_ids)
                        /\ ~(PrimaryArtist(t) # << >>
                               /\ PrimaryArtist(t) \in global_seen_artists))

\* the score by which the script ranks a candidate of the genre in turn,
\* without the random term
ScoreInTurn(t) ==
    IF script = "killmegod" THEN proto_score(GenreInTurn, t, GENRE_RULES)
    ELSE IF script = "v2" THEN v2_proto_score(GenreInTurn, t)
    ELSE LET years == sorted(YearVals(CandidatesInTurn))
         IN score_track(t, RulesGet(GENRE_RULES, GenreInTurn),
                        IF years = << >> THEN NONE ELSE years[(Len(years) \div 2) + 1])

\* the step for a real genre keeps, of the candidates of one primary artist,
\* one that no other candidate of that artist outscores
KeepsBestOfArtist ==
    (script \in {"killmegod", "v2", "test"} /\ pos \in 1..Len(PLAYABLE_GENRES)) =>
        \A s \in TrackSet(results'[GenreInTurn]), u \in TrackSet(CandidatesInTurn) :
            (PrimaryArtist(u) # << >> /\ ArtistKey(u) = ArtistKey(s))
                => ScoreInTurn(u) <= ScoreInTurn(s)

\* C25: of several candidates of a genre that share a primary artist, the
\* seed list keeps the highest-scoring one
C25_DedupKeepsHighestScoring == [][KeepsBestOfArtist]_vars

\* ------------------------------------------------------------------------
\* Properties of a node's own summary (killmegod.py, patched_help)
\* ------------------------------------------------------------------------
\* the seeds that a built node emits: the seed list of its key, and in
\* patched_help the seeds chosen from its pool
OwnSeeds(p) ==
    IF script = "killmegod" \/ NodeSeeds(p) = << >> THEN NodeSeeds(p)
    ELSE choose_seeds_for_genre(p.path[Len(p.path)], NodeSeeds(p), SEEDS_PER_GENRE_DEFAULT)

\* the value a built node carries for a feature field, and its median year;
\* NONE where it carries none
EmittedFeature(p, f) ==
    IF "features" \in DOMAIN p.out THEN p.out["features"][f] ELSE NONE
EmittedYear(p) ==
    IF "median_year" \in DOMAIN p.out THEN p.out["median_year"] ELSE NONE

\* C26: a built node whose seed key resolved to a non-empty seed list carries
\* the feature values and the median year computed from those seeds, and
\* nothing aggregated from its children
C26_OwnSeedsAreTheOnlySource ==
    manDone =>
        \A p \in BuiltNodes :
            OwnSeeds(p) # << >> =>
                \E direct \in compute_features_from_tracks(script, OwnSeeds(p)) :
                    /\ EmittedYear(p) = direct.med_year
                    /\ \A f \in FEATURE_FIELDS : EmittedFeature(p, f) = direct.feat[f]

\* ------------------------------------------------------------------------
\* Properties of the parent maps (killmegod.py, v2.py)
\* ------------------------------------------------------------------------
\* build_parent_maps has returned for the call the scripts make
ParentMapsReturned ==
    call # << >> /\ call.fn = "build_parent_maps" /\ call.on = "taxonomy" /\ ret # << >>

\* the paths of the taxonomy nodes that carry a seed key and have a parent node
ChildPaths(items) ==
    { p \in UNION { [1..d -> 1..3] : d \in 2..MaxTreeDepth } :
        NodeAt(items, p).kind = "dict" /\ NodeAt(items, p)._seeds # << >> }

\* C27: the map returned for the taxonomy holds every genre that has a
\* parent node, with a non-empty parent label, and two genres under the same
\* immediate parent carry the same label, so that they share one family set
C27_ParentMapsCoverEveryChildGenre ==
    ParentMapsReturned =>
        LET gtp == ret[1].genre_to_parent
            seed(p) == NodeAt(call.tree, p)._seeds
        IN /\ \A p \in ChildPaths(call.tree) :
                 seed(p) \in DOMAIN gtp /\ gtp[seed(p)] # << >>
           /\ \A p \in ChildPaths(call.tree), q \in ChildPaths(call.tree) :
                 SubSeq(p, 1, Len(p) - 1) = SubSeq(q, 1, Len(q) - 1)
                     => gtp[seed(p)] = gtp[seed(q)]

\* ------------------------------------------------------------------------
\* Properties of the loading and cleaning of the dataset (killmegod.py)
\* ------------------------------------------------------------------------
\* C28: while the cleaning loop runs, every loaded track record equals the
\* record of the dataset it was loaded from, and afterwards every track the
\* pipeline works on is a record of the dataset
C28_LoadedTracksAreNeverMutated ==
    (call # << >> /\ call.fn = "load" /\ tracks # << >>) =>
        IF pos <= Len(call.dataset) + 1
        THEN tracks = call.dataset
        ELSE \A k \in DOMAIN tracks :
                \E i \in DOMAIN call.dataset : tracks[k] = call.dataset[i]

\* ------------------------------------------------------------------------
\* Properties of the run-wide uniqueness sets (killmegod.py)
\* ------------------------------------------------------------------------
\* the tracks accepted so far into some seed list
AcceptedTracks == UNION { { results[g][i] : i \in DOMAIN results[g] } : g \in DOMAIN results }

\* the run-wide sets hold the ids and the artist keys of the accepted tracks
\* and nothing else
SeenSetsExact ==
    /\ global_seen_ids = { t.uri : t \in AcceptedTracks }
    /\ global_seen_artists = { ArtistKey(t) : t \in AcceptedTracks }

\* C29: at every step of the real and the synthetic pass of killmegod.py the
\* run-wide sets of ids and of artists are exactly those of the tracks
\* accepted so far, and a step never removes an element from either
C29_SeenSetsExactAndGrowing ==
    [][script = "killmegod" =>
          /\ SeenSetsExact /\ SeenSetsExact'
          /\ global_seen_ids \subseteq global_seen_ids'
          /\ global_seen_artists \subseteq global_seen_artists']_vars

\* both passes have run and accepted tracks: a real genre and the synthetic
\* node hold seeds, one of them without an artist
C29_Witness ==
    /\ script = "killmegod"
    /\ S.Modern \in DOMAIN results /\ results[S.Modern] # << >>
    /\ results[S.shoegaze] # << >>
    /\ << >> \in global_seen_artists
    /\ Cardinality(global_seen_ids) >= 8

\* ------------------------------------------------------------------------
\* Properties of the emitted seeds (killmegod.py, v2.py)
\* ------------------------------------------------------------------------
\* C30: every seed of every seed list, of a real genre or of a synthetic
\* node, has a non-empty track id and a non-empty primary artist
C30_SeedsHaveIdAndArtist ==
    \A g \in DOMAIN results :
        \A i \in DOMAIN results[g] :
            /\ results[g][i].uri # << >>
            /\ PrimaryArtist(results[g][i]) # << >>

====
